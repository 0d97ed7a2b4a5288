---------------------------- MODULE WorkerSource ----------------------------
(***************************************************************************)
(* A StreamWorker with its RtspSource: where StreamWorker has a readPacket *)
(* that blocks and returns as its contract says, this module runs the one  *)
(* of src/capture/RtspSource.cpp, with its outages, attempts and waits,    *)
(* and the requestShutdown() of stop() reaches the object that the thread  *)
(* is working with.  The worker is stopped, started again and destroyed at *)
(* any time; every start makes a new source, and the camera and the clock  *)
(* go on as they like.                                                     *)
(*                                                                         *)
(* One worker is enough, as workers share nothing: it is one of Workers,   *)
(* with or without reconnecting.                                           *)
(***************************************************************************)
EXTENDS RtspSource

CONSTANTS Workers, Reconnecting

VARIABLES
    status, shutdownRequested, stopped, source, srcShutdown, muxer,
    initialized, tpc, cpc, dying, result,       \* StreamWorker's
    me                                          \* the worker that runs

Worker == INSTANCE StreamWorker

workerVars == <<status, shutdownRequested, stopped, source, srcShutdown, muxer,
                initialized, tpc, cpc, dying, result>>
wsVars == <<vars, workerVars, me>>

WSInit ==
    /\ Init /\ Worker!Init
    /\ me \in Workers
    /\ enabled = (me \in Reconnecting)

(* The caller's steps that do not touch the source.  cleanup() destroys it;*)
(* what is left of its state is looked at by nobody.                       *)
CallerRuns ==
    /\ \/ Worker!Call(me)
       \/ Worker!CallerStep(me) /\ cpc[me] # "stop_source"
    /\ UNCHANGED <<vars, me>>

(* stop() reaches the source, unless it reads a null pointer.              *)
TellsSource ==
    /\ Worker!StopSource(me)
    /\ IF srcShutdown'[me] THEN requestShutdown ELSE UNCHANGED vars
    /\ UNCHANGED me
-----------------------------------------------------------------------------
(* The processing thread.                                                  *)

(* make_unique<RtspSource>: a new policy and a new, unconnected source.    *)
NewSource ==
    /\ reset
    /\ pc' = "new" /\ connected' = FALSE /\ idle' = 0 /\ shutdown' = FALSE
    /\ ahead' = FALSE /\ counted' = 0
    /\ delivered' = FALSE /\ spliced' = FALSE /\ late' = 0
    /\ broken' = FALSE
    /\ UNCHANGED <<enabled, up>>

CreatesSource ==
    /\ Worker!CreateSource(me)
    /\ IF source'[me] THEN NewSource ELSE UNCHANGED vars
    /\ UNCHANGED me

OpenBegins ==
    /\ tpc[me] = "open_source"
    /\ open
    /\ UNCHANGED <<workerVars, me>>

OpenEnds ==
    /\ Worker!OpenSource(me)
    /\ Opened
    /\ tpc'[me] = "init_muxer" <=> pc' = "idle"
    /\ UNCHANGED me

Initializes ==
    /\ Worker!InitMuxer(me) \/ Worker!SetRunning(me)
    /\ UNCHANGED <<vars, me>>

(* The loop looks at its flag and calls readPacket().                      *)
Loops ==
    /\ Worker!LoopCheck(me)
    /\ IF tpc'[me] = "read" THEN Call ELSE UNCHANGED vars
    /\ UNCHANGED me

(* Where readPacket() has got to decides where the worker goes on.         *)
ReadReturns ==
    tpc' = [tpc EXCEPT ![me] =
               CASE pc' = "got" -> "write" [] pc' = "over" -> "done" [] OTHER -> @]

readPacket ==
    /\ tpc[me] = "read"
    /\ Check \/ Connect \/ Reopened \/ Read \/ PacketRead \/ ReadFails
    /\ ReadReturns
    /\ UNCHANGED <<status, shutdownRequested, stopped, source, srcShutdown,
                   muxer, initialized, cpc, dying, result, me>>

Writes ==
    /\ Worker!WritePacket(me)
    /\ Deliver
    /\ UNCHANGED me

processingLoop ==
    CreatesSource \/ OpenBegins \/ OpenEnds \/ Initializes \/ Loops \/ readPacket
    \/ Writes

WorldStep ==
    /\ CameraFails \/ CameraReturns \/ Tick
    /\ UNCHANGED <<workerVars, me>>

CallInProgress == (CallerRuns \/ TellsSource) /\ cpc[me] # "idle"

WSNext == CallerRuns \/ TellsSource \/ processingLoop \/ WorldStep

WSSpec == WSInit /\ [][WSNext]_wsVars

(* Both threads are scheduled, time passes, and the blocking calls end, as *)
(* stimeout makes them; the camera owes us a packet only while it is up.   *)
WSFairness ==
    /\ WF_wsVars(CallInProgress)
    /\ WF_wsVars(processingLoop)
    /\ WF_wsVars(Tick /\ WorldStep)
    /\ SF_wsVars(PacketRead /\ up /\ ~broken /\ processingLoop)

WSFairSpec == WSSpec /\ WSFairness
-----------------------------------------------------------------------------
WSTypeOK == TypeOK /\ Worker!TypeOK /\ me \in Workers

(* The source does what StreamWorker takes for granted: readPacket() gives *)
(* up only when it was told to or may not reconnect, and it does give up   *)
(* when it was told, in the middle of any outage, any number of attempts   *)
(* and any wait.  Nothing is assumed of readPacket() as a whole, so that    *)
(* what StreamWorker promises of stop() holds of the two together.         *)
ImplementsWorker == Worker!FairSpec

(* A camera that comes back for good is read again, after any outage, as   *)
(* long as the worker's loop goes on.                                      *)
StreamResumes ==
    <>[](up /\ tpc[me] \in {"check", "read", "write"}) => []<>(pc = "got")
=============================================================================
