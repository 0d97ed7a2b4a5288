----------------------------- MODULE RtspSource -----------------------------
(***************************************************************************)
(* RtspSource (src/capture/RtspSource.cpp): readPacket() blocks until it   *)
(* has a packet, and on the way closes, reopens and waits as ReconnectPolicy*)
(* says.  It runs on the worker's thread, which compares the reconnect     *)
(* counter of PipelineHealth before and after and writes a discontinuity   *)
(* when it has grown; another thread may request the shutdown at any time. *)
(*                                                                         *)
(* Time passes in ticks of the loop's 100 ms sleep.  Of the two counters   *)
(* only what is looked at is kept: whether one is ahead of the other, and  *)
(* how often the present outage was counted.                               *)
(***************************************************************************)
EXTENDS ReconnectPolicy

CONSTANTS
    StaleTimeout,       \* config_.stale_timeout_s
    TicksPerSecond

ASSUME SourceAssumption ==
    /\ StaleTimeout \in Nat /\ TicksPerSecond \in Nat \ {0}

VARIABLES
    enabled,    \* config_.reconnect_enabled
    pc,         \* where the worker's thread is
    connected,  \* formatContext_ is set
    idle,       \* ticks since last_packet_time_
    shutdown,   \* shutdown_requested_
    ahead,      \* reconnect_count_ > lastReconnectCount of the worker
    counted,    \* reconnects recorded since the last connection, up to 2
    delivered,  \* the worker has had a packet
    spliced,    \* this connection is not the one of the last packet it had
    late,       \* blocking calls begun after the shutdown request, up to 3
    up,         \* the camera answers
    broken      \* the camera went away during this connection

loopVars == <<enabled, pc, connected, idle, shutdown>>
countVars == <<ahead, counted, delivered, spliced, late>>
cameraVars == <<up, broken>>
vars == <<policyVars, loopVars, countVars, cameraVars>>

SourcePc == {"new", "opening", "idle", "check", "connect", "reopening",
             "sleep", "read", "reading", "got", "over"}

(* elapsed seconds, truncated, are more than stale_timeout_s.              *)
StaleAt == (StaleTimeout + 1) * TicksPerSecond
isStale == idle >= StaleAt

(* A blocking call begins: it is late if the shutdown was requested.       *)
BlockingCall == late' = IF shutdown /\ late < 3 THEN late + 1 ELSE late

recordReconnect ==
    /\ ahead' = TRUE
    /\ counted' = IF counted < 2 THEN counted + 1 ELSE 2

closeConnection == connected' = FALSE /\ broken' = FALSE

Init ==
    /\ PolicyInit
    /\ enabled \in BOOLEAN
    /\ pc = "new" /\ connected = FALSE /\ idle = 0 /\ shutdown = FALSE
    /\ ahead = FALSE /\ counted = 0
    /\ delivered = FALSE /\ spliced = FALSE /\ late = 0
    /\ up \in BOOLEAN /\ broken = FALSE
-----------------------------------------------------------------------------
(* open(), once, before the worker's loop.                                 *)
open ==
    /\ pc = "new"
    /\ pc' = "opening"
    /\ BlockingCall
    /\ UNCHANGED <<policyVars, enabled, connected, idle, shutdown, ahead, counted,
                   delivered, spliced, cameraVars>>

Opened ==
    /\ pc = "opening"
    /\ IF up THEN pc' = "idle" /\ connected' = TRUE /\ idle' = 0
             ELSE pc' = "over" /\ UNCHANGED <<connected, idle>>
    /\ UNCHANGED <<policyVars, enabled, shutdown, countVars, cameraVars>>
-----------------------------------------------------------------------------
(* readPacket().                                                           *)

Call ==
    /\ pc = "idle"
    /\ pc' = "check"
    /\ UNCHANGED <<policyVars, enabled, connected, idle, shutdown, countVars, cameraVars>>

(* Wrong: only isStale() is looked at.                                     *)
CheckStaleOnly ==
    /\ pc = "check"
    /\ pc' = "connect"
    /\ IF isStale /\ enabled
          THEN closeConnection /\ recordReconnect
          ELSE UNCHANGED <<connected, broken, ahead, counted>>
    /\ UNCHANGED <<policyVars, enabled, idle, shutdown, delivered, spliced, late, up>>

(* The head of the loop: shutdown_requested_, then isStale(); a source     *)
(* that is closed already is stale as well, and counted again.             *)
Check ==
    /\ pc = "check"
    /\ IF shutdown
          THEN pc' = "over" /\ UNCHANGED <<connected, broken, ahead, counted>>
          ELSE /\ pc' = "connect"
               /\ IF isStale /\ enabled
                     THEN closeConnection /\ recordReconnect
                     ELSE UNCHANGED <<connected, broken, ahead, counted>>
    /\ UNCHANGED <<policyVars, enabled, idle, shutdown, delivered, spliced, late, up>>

(* Open: read.  Closed: give up, wait, or try to open.                     *)
Connect ==
    /\ pc = "connect"
    /\ IF ~connected /\ enabled /\ shouldRetry
          THEN pc' = "reopening" /\ BlockingCall
          ELSE /\ pc' = IF connected THEN "read"
                        ELSE IF enabled THEN "sleep" ELSE "over"
               /\ UNCHANGED late
    /\ UNCHANGED <<policyVars, enabled, connected, idle, shutdown, ahead, counted,
                   delivered, spliced, cameraVars>>

Reopened ==
    /\ pc = "reopening"
    /\ \/ /\ up
          /\ connected' = TRUE
          /\ reset
          /\ counted' = 0
          /\ spliced' = delivered
          /\ pc' = "read"
       \/ /\ ~up
          /\ recordAttempt
          /\ pc' = "sleep"
          /\ UNCHANGED <<connected, counted, spliced>>
    /\ UNCHANGED <<enabled, idle, shutdown, ahead, delivered, late, cameraVars>>

Read ==
    /\ pc = "read"
    /\ pc' = "reading"
    /\ BlockingCall
    /\ UNCHANGED <<policyVars, enabled, connected, idle, shutdown, ahead, counted,
                   delivered, spliced, cameraVars>>

(* av_read_frame has a packet ...                                          *)
PacketRead ==
    /\ pc = "reading"
    /\ idle' = 0
    /\ pc' = "got"
    /\ UNCHANGED <<policyVars, enabled, connected, shutdown, countVars, cameraVars>>

(* Wrong: an error closes the connection without counting it.              *)
ReadFailsUncounted ==
    /\ pc = "reading"
    /\ IF enabled
          THEN pc' = "check" /\ closeConnection
          ELSE pc' = "over" /\ UNCHANGED <<connected, broken>>
    /\ UNCHANGED <<policyVars, enabled, idle, shutdown, ahead, counted, delivered,
                   spliced, late, up>>

(* Wrong: the end of the stream ends readPacket.                           *)
ReadFailsForGood ==
    /\ pc = "reading"
    /\ pc' = "over"
    /\ UNCHANGED <<policyVars, enabled, connected, idle, shutdown, countVars, cameraVars>>

(* ... or reports the end of the stream or an error; a camera that is up   *)
(* may end the session as well.                                            *)
ReadFails ==
    /\ pc = "reading"
    /\ IF enabled
          THEN pc' = "check" /\ closeConnection /\ recordReconnect
          ELSE pc' = "over" /\ UNCHANGED <<connected, broken, ahead, counted>>
    /\ UNCHANGED <<policyVars, enabled, idle, shutdown, delivered, spliced, late, up>>

(* Back in the worker: a counter that has grown means a discontinuity in   *)
(* front of this packet.                                                   *)
Deliver ==
    /\ pc = "got"
    /\ pc' = "idle"
    /\ ahead' = FALSE
    /\ delivered' = TRUE
    /\ spliced' = FALSE
    /\ UNCHANGED <<policyVars, enabled, connected, idle, shutdown, counted, late,
                   cameraVars>>
-----------------------------------------------------------------------------
(* The other thread, the camera and the clock.                             *)

requestShutdown ==
    /\ ~shutdown
    /\ shutdown' = TRUE
    /\ UNCHANGED <<policyVars, enabled, pc, connected, idle, countVars, cameraVars>>

CameraFails ==
    /\ up
    /\ up' = FALSE
    /\ broken' = connected
    /\ UNCHANGED <<policyVars, loopVars, countVars>>

CameraReturns ==
    /\ ~up
    /\ up' = TRUE
    /\ UNCHANGED <<policyVars, loopVars, countVars, broken>>

(* A tick; it ends the sleep in the loop.                                  *)
Tick ==
    /\ Elapse
    /\ idle' = IF idle < StaleAt THEN idle + 1 ELSE idle
    /\ pc' = IF pc = "sleep" THEN "check" ELSE pc
    /\ UNCHANGED <<enabled, connected, shutdown, countVars, cameraVars>>

ThreadStep ==
    \/ open \/ Opened
    \/ Call \/ Check \/ Connect \/ Reopened \/ Read
    \/ PacketRead \/ ReadFails \/ Deliver

Next == ThreadStep \/ requestShutdown \/ CameraFails \/ CameraReturns \/ Tick

Spec == Init /\ [][Next]_vars
-----------------------------------------------------------------------------
TypeOK ==
    /\ attempts \in 0..Width /\ wait \in Nat
    /\ enabled \in BOOLEAN /\ pc \in SourcePc
    /\ connected \in BOOLEAN /\ shutdown \in BOOLEAN
    /\ idle \in 0..StaleAt
    /\ ahead \in BOOLEAN /\ counted \in 0..2
    /\ delivered \in BOOLEAN /\ spliced \in BOOLEAN
    /\ late \in 0..3
    /\ up \in BOOLEAN /\ broken \in BOOLEAN

(* Two connections are never spliced silently: the first packet that the   *)
(* worker gets from a new connection finds the reconnect counter grown, so *)
(* that a discontinuity is written in front of it, whatever closed the old *)
(* connection and however many attempts it took.                           *)
NoSilentSplice == pc = "got" /\ spliced => ahead

(* What StreamWorker's ReadPacket relies on: readPacket gives up only when *)
(* it was told to, or when reconnecting is disabled.                       *)
GivesUpWhenTold ==
    pc = "over" /\ delivered => shutdown \/ ~enabled

(* After requestShutdown() the thread begins at most one more attempt to   *)
(* open and one more read.                                                 *)
ShutdownIsPrompt == late <= 2
-----------------------------------------------------------------------------
(* What a comment, a doc or a test says and the code does not do: TLC      *)
(* refutes the property below (README, "Disagreements").                   *)

(* docs/http-api.md:552: Reconnects is the "Number of times RTSP           *)
(* connection was re-established".  One outage is counted more than once:  *)
(* when it is noticed, and whenever the loop finds the source still stale. *)
OutageCountedOnce == counted <= 1
=============================================================================
