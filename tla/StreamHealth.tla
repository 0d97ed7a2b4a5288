---------------------------- MODULE StreamHealth ----------------------------
(***************************************************************************)
(* What the process says of its streams while they run: PipelineHealth's   *)
(* counters, StreamManager::getAggregateHealth() as the listener thread of *)
(* the HTTP server calls it for /api/health and /api/streams, the loop in  *)
(* which main watches for all streams to fail, and the last report, which  *)
(* main makes when everything is stopped.                                  *)
(*                                                                         *)
(* The threads of the workers run on all the while, and every load is a    *)
(* step.  Of the counters packets_written_ stands for all.  The lines that *)
(* main logs every 500 ms are made by the same call as the answers to the  *)
(* clients, and are left to those.                                         *)
(***************************************************************************)
EXTENDS StreamManager, FiniteSets

CONSTANT MaxWritten     \* a bound: packets counted for a worker

ASSUME HealthAssumption == MaxWritten \in Nat /\ IsFiniteSet(Workers)

VARIABLES
    written,    \* packets_written_ of every worker's PipelineHealth
    http,       \* the HTTP server
    rpc,        \* what getAggregateHealth() loads next, or "idle"
    unread,     \* the workers its loop has yet to visit
    visiting,   \* the worker it is at
    report,     \* the AggregateHealth it has collected
    began,      \* what had been written when it began
    final,      \* main has begun its last report
    scanning,   \* main is in getActiveStreamCount()
    unseen,     \* the workers that loop has yet to visit
    reported    \* allStreamsFailedReported

reportVars == <<rpc, unread, visiting, report, began>>
scanVars == <<scanning, unseen, reported>>
healthVars == <<written, http, final, reportVars, scanVars>>
processVars == <<allVars, healthVars>>

(* The counters' sum, as the number of the packets that they count.        *)
Packets(S) == {p \in S \X (1..MaxWritten) : p[2] <= written[p[1]]}
Written == Cardinality(Packets(Workers))

EmptyReport == [written |-> 0, stats |-> 0, active |-> 0, error |-> 0]

HealthInit ==
    /\ ManagerInit
    /\ written = [w \in Workers |-> 0]
    /\ http = "down" /\ final = FALSE
    /\ rpc = "idle" /\ unread = {} /\ visiting \in Workers
    /\ report = EmptyReport /\ began = 0
    /\ scanning = FALSE /\ unseen = {} /\ reported = FALSE
-----------------------------------------------------------------------------
(* getAggregateHealth(), by the listener thread, or at the end by main.    *)

(* Wrong: the last report is made before the streams are stopped.          *)
MayReportEarly ==
    \/ http = "up"
    \/ http = "closed" /\ mpc = "running" /\ ~final

MayReport ==
    \/ http = "up"
    \/ http = "closed" /\ mpc = "stopped" /\ mgrStopped /\ ~final

ReportBegin ==
    /\ rpc = "idle" /\ MayReport
    /\ rpc' = "next"
    /\ unread' = Workers
    /\ report' = EmptyReport
    /\ began' = Written
    /\ final' = (http = "closed")
    /\ UNCHANGED <<allVars, written, http, visiting, scanVars>>

ReportTotals(w) ==
    /\ rpc = "next" /\ w \in unread
    /\ visiting' = w
    /\ unread' = unread \ {w}
    /\ report' = [report EXCEPT !.written = @ + written[w]]
    /\ rpc' = "active"
    /\ UNCHANGED <<allVars, written, http, final, began, scanVars>>

ReportActive ==
    /\ rpc = "active"
    /\ report' = [report EXCEPT !.active = @ + (IF isActive(visiting) THEN 1 ELSE 0)]
    /\ rpc' = "status"
    /\ UNCHANGED <<allVars, written, http, final, unread, visiting, began, scanVars>>

ReportStatus ==
    /\ rpc = "status"
    /\ report' = [report EXCEPT !.error = @ + (IF status[visiting] = "ERROR" THEN 1 ELSE 0)]
    /\ rpc' = "stats"
    /\ UNCHANGED <<allVars, written, http, final, unread, visiting, began, scanVars>>

(* Wrong: what was reported is not reported again.                         *)
ReportStatsResets ==
    /\ rpc = "stats"
    /\ report' = [report EXCEPT !.stats = @ + written[visiting]]
    /\ written' = [written EXCEPT ![visiting] = 0]
    /\ rpc' = "next"
    /\ UNCHANGED <<allVars, http, final, unread, visiting, began, scanVars>>

(* stat.packets_written: the counter is loaded a second time.              *)
ReportStats ==
    /\ rpc = "stats"
    /\ report' = [report EXCEPT !.stats = @ + written[visiting]]
    /\ rpc' = "next"
    /\ UNCHANGED <<allVars, written, http, final, unread, visiting, began, scanVars>>

Reported == rpc = "next" /\ unread = {}

ReportEnd ==
    /\ Reported
    /\ rpc' = "idle"
    /\ UNCHANGED <<allVars, written, http, final, unread, visiting, report, began,
                   scanVars>>

getAggregateHealth ==
    \/ ReportBegin \/ (\E w \in Workers : ReportTotals(w))
    \/ ReportActive \/ ReportStatus \/ ReportStats \/ ReportEnd
-----------------------------------------------------------------------------
(* main, between the start of the streams and their end.                   *)

(* A server that does not start ends the process: the streams are stopped, *)
(* or, when none was started, left to the destructor.                      *)
HttpStart ==
    /\ mpc = "running" /\ http = "down"
    /\ \/ http' = "up" /\ UNCHANGED allVars
       \/ Shutdown /\ UNCHANGED http
    /\ UNCHANGED <<written, final, reportVars, scanVars>>

(* getActiveStreamCount() == 0?  The count matters only as far as the      *)
(* first active worker.                                                    *)
ScanBegin ==
    /\ mpc = "running" /\ http = "up" /\ ~scanning
    /\ ~reported
    /\ scanning' = TRUE
    /\ unseen' = Workers
    /\ UNCHANGED <<allVars, written, http, final, reportVars, reported>>

ScanNext(w) ==
    /\ scanning /\ w \in unseen
    /\ IF isActive(w) THEN scanning' = FALSE /\ unseen' = {}
                      ELSE unseen' = unseen \ {w} /\ UNCHANGED scanning
    /\ UNCHANGED <<allVars, written, http, final, reportVars, reported>>

(* Wrong: the scan looks at one worker.                                    *)
ScanEndsEarly ==
    /\ scanning /\ unseen # Workers
    /\ scanning' = FALSE
    /\ unseen' = {}
    /\ reported' = (started > 0)
    /\ UNCHANGED <<allVars, written, http, final, reportVars>>

(* Wrong: a stream that has failed is not reported if one did not start.   *)
ScanEndIfAllStarted ==
    /\ scanning /\ unseen = {}
    /\ scanning' = FALSE
    /\ reported' = (\A w \in Workers : result[w])
    /\ UNCHANGED <<allVars, written, http, final, reportVars, unseen>>

ScanEnd ==
    /\ scanning /\ unseen = {}
    /\ scanning' = FALSE
    /\ reported' = (started > 0)
    /\ UNCHANGED <<allVars, written, http, final, reportVars, unseen>>

(* Wrong: http_server.stop() does not wait for the listener thread.        *)
HttpStopDetaches ==
    /\ mpc = "running" /\ http = "up" /\ ~scanning
    /\ http' = "closed"
    /\ UNCHANGED <<allVars, written, final, reportVars, scanVars>>

(* The signal: http_server.stop() waits for the handler in progress.       *)
HttpStop ==
    /\ mpc = "running" /\ http = "up" /\ ~scanning
    /\ rpc = "idle"
    /\ http' = "closed"
    /\ UNCHANGED <<allVars, written, final, reportVars, scanVars>>

(* ... and then the streams are stopped.                                   *)
StopStreams ==
    /\ http = "closed"
    /\ Shutdown /\ mpc' = "stop"
    /\ UNCHANGED healthVars

(* The rest is StreamManager's, but for the last report, which comes       *)
(* before the destructors.                                                 *)
ManagerRuns ==
    /\ MainStep
    /\ mpc = "stopped" /\ mgrStopped /\ http = "closed" => final /\ rpc = "idle"
    /\ UNCHANGED healthVars

CallRuns(w) == CallProceeds(w) /\ UNCHANGED healthVars

(* A packet that the muxer took is counted.                                *)
recordPacketWritten(w) ==
    /\ written[w] < MaxWritten
    /\ written' = [written EXCEPT ![w] = @ + 1]

ThreadRunsOn(w) ==
    /\ WorkerThread(w)
    /\ \/ UNCHANGED written
       \/ tpc[w] = "write" /\ tpc'[w] = "check" /\ recordPacketWritten(w)
    /\ UNCHANGED <<http, final, reportVars, scanVars>>

ScanStep == ScanBegin \/ (\E w \in Workers : ScanNext(w)) \/ ScanEnd

MainRuns == HttpStart \/ ScanStep \/ StopStreams \/ ManagerRuns

HealthNext ==
    \/ MainRuns \/ HttpStop
    \/ getAggregateHealth
    \/ \E w \in Workers : CallRuns(w) \/ ThreadRunsOn(w)

HealthSpec == HealthInit /\ [][HealthNext]_processVars

(* The main thread and the listener are scheduled; the signal may never    *)
(* come.                                                                   *)
HealthFairness ==
    /\ WF_processVars(MainRuns)
    /\ WF_processVars(getAggregateHealth /\ rpc # "idle")
    /\ WF_processVars(ReportBegin /\ mpc = "stopped")
    /\ \A w \in Workers : WF_processVars(CallRuns(w))

HealthFairSpec == HealthSpec /\ HealthFairness
-----------------------------------------------------------------------------
HealthTypeOK ==
    /\ ManagerTypeOK
    /\ written \in [Workers -> 0..MaxWritten]
    /\ http \in {"down", "up", "closed"} /\ final \in BOOLEAN
    /\ rpc \in {"idle", "next", "active", "status", "stats"}
    /\ unread \subseteq Workers /\ visiting \in Workers
    /\ report \in [{"written", "stats", "active", "error"} -> Nat]
    /\ began \in Nat
    /\ scanning \in BOOLEAN /\ unseen \subseteq Workers /\ reported \in BOOLEAN

(* The total of a report is one that the process went through while the    *)
(* report was made, although it is added up counter by counter while all   *)
(* of them move; and the figures of the single streams, loaded later, do   *)
(* not fall short of it.  Nor does it show a failure that did not happen,  *)
(* or miss a stream that is active.                                        *)
ReportIsCurrent ==
    Reported =>
        /\ began <= report.written
        /\ report.written <= report.stats
        /\ report.stats <= Written
        /\ report.error <= Cardinality({w \in Workers : status[w] = "ERROR"})
        /\ report.active >= Cardinality({w \in Workers : isActive(w)})

(* No request is in the middle of its report when the workers that it      *)
(* reads are being stopped and destroyed: once main is on its way out, the *)
(* one report that is made is main's own, before the destructors.          *)
NoReportOfTheDead ==
    rpc # "idle" =>
        /\ mpc = "running" \/ final
        /\ \A w \in Workers : cpc[w] # "destroyed" /\ ~dying[w]

(* The last line of the log is final: no packet is written after it, and   *)
(* no stream is active, although stop() passes over the workers that were  *)
(* not active when it came to them.                                        *)
LastReportIsFinal ==
    final /\ rpc = "idle" => report.written = Written /\ report.active = 0

(* main reports that all streams have failed only when none is active: a   *)
(* worker that the scan has passed does not become active behind it.       *)
AllFailedIsTrue ==
    [][reported' /\ ~reported => \A w \in Workers : ~isActive(w)]_processVars

(* ... and when every stream that came up has failed, it is reported, or   *)
(* the process is on its way out; the threads of the streams need not run. *)
AllFailedIsNoticed ==
    (/\ http = "up" /\ started > 0
     /\ \A w \in Workers : status[w] = "ERROR") ~> (reported \/ http # "up")
=============================================================================
