--------------------------- MODULE StreamPipeline ---------------------------
(***************************************************************************)
(* The loop of a StreamWorker (processingLoop in src/util/StreamWorker.cpp)*)
(* with what it drives: a packet is read, a discontinuity is written when  *)
(* the connection is a new one, PacketClock normalizes the packet and      *)
(* HlsMuxer writes it.  PacketClock and HlsMuxer are whole; the source is  *)
(* what the loop sees of it: frames whose timestamps go on from one to the *)
(* next, now and then without one, and that begin again at 0 with every    *)
(* connection; WorkerSource has the rest.                                  *)
(***************************************************************************)
EXTENDS PacketClock, Sequences, FiniteSets

CONSTANTS
    Steps,          \* from the timestamp of a frame to that of the next
    Missing,        \* frames may come without a PTS or DTS, or with the two crossed
    SegDur, LiveWindow, Retention, MinAge, CleanupEvery, EpochShift, IntHalf,
    MaxIndex,       \* HlsMuxer's
    Gaps            \* ... the PTS distances that it is specified for

VARIABLES
    pc, after, disk, live, archive, segments, cur, index, elapsed, gap,
    flagNext, pending, sweep, lastCleanup, now, runs, resumed,
    highest, unseen, untimed,   \* HlsMuxer's
    wpc,            \* where the loop is
    packet,         \* the packet in hand
    stamp,          \* the timestamp of the last frame of this connection
    fresh,          \* no packet of this connection was read yet
    splice,         \* ... and none of its frames was written
    splices,        \* the segments that a connection begins in
    frames          \* the frames in the current segment

muxerVars == <<pc, after, disk, live, archive, segments, cur, index, elapsed,
               gap, flagNext, pending, sweep, lastCleanup, now, runs, resumed,
               highest, unseen, untimed>>
sourceVars == <<stamp, fresh>>
spliceVars == <<splice, splices, frames>>
pipeVars == <<vars, muxerVars, wpc, packet, sourceVars, spliceVars>>

(* The disk is there, the clock stands still and the process lives: what   *)
(* happens otherwise is HlsMuxer's matter.  Every distance that the clock  *)
(* leaves between two packets is one that the muxer has to cope with.      *)
Muxer == INSTANCE HlsMuxer WITH
    CanFail <- {}, MaxTime <- 0, MaxRuns <- 1

PipeInit ==
    /\ Init /\ Muxer!Init
    /\ wpc = "read" /\ packet = NoPacket
    /\ stamp = 0 /\ fresh = FALSE
    /\ splice = FALSE /\ splices = {} /\ frames = 0

Open ==
    /\ Muxer!open
    /\ UNCHANGED <<vars, wpc, packet, sourceVars, spliceVars>>
-----------------------------------------------------------------------------
(* readPacket().                                                           *)

(* The connection is lost and made again.                                  *)
Reconnect ==
    /\ wpc = "read" /\ pc = "ready"
    /\ fresh' = TRUE
    /\ splice' = TRUE
    /\ stamp' = 0
    /\ UNCHANGED <<vars, muxerVars, wpc, packet, splices, frames>>

(* A frame, or a packet of another stream, is read; it is the first of its *)
(* connection if the reconnect counter has grown.                          *)
ReadFrame ==
    /\ wpc = "read" /\ pc = "ready" /\ packets < MaxPackets
    /\ \E s \in Steps : stamp' = stamp + s
    /\ packet' \in IF Missing
                   THEN [pts : {stamp', NoPts}, dts : {stamp' - 1, stamp' + 1, NoPts}]
                   ELSE {[pts |-> stamp', dts |-> stamp']}
    /\ wpc' = IF fresh THEN "mark" ELSE "write"
    /\ fresh' = FALSE
    /\ UNCHANGED <<vars, muxerVars, spliceVars>>

ReadOther ==
    /\ wpc = "read" /\ pc = "ready" /\ fresh
    /\ wpc' = "markother"
    /\ fresh' = FALSE
    /\ UNCHANGED <<vars, muxerVars, packet, stamp, spliceVars>>

(* hlsMuxer_->writeDiscontinuity(); only frames are written after it.      *)
Mark ==
    /\ wpc \in {"mark", "markother"}
    /\ Muxer!writeDiscontinuity
    /\ wpc' = IF wpc = "mark" THEN "write" ELSE "read"
    /\ UNCHANGED <<vars, packet, sourceVars, spliceVars>>

(* normalizePacket() and writePacket(), which continues in MuxerRuns.      *)
Write ==
    /\ wpc = "write" /\ pc = "ready"
    /\ normalizePacket(packet)
    /\ LET d == IF packets = 0 THEN 1 ELSE out'.pts - out.pts
       IN  \/ (Muxer!WriteFirst(d) \/ Muxer!WriteRotates(d)) /\ frames' = 1
           \/ Muxer!WriteFits(d) /\ frames' = frames + 1
    /\ splices' = IF splice THEN splices \union {index'} ELSE splices
    /\ splice' = FALSE
    /\ wpc' = "read" /\ packet' = NoPacket
    /\ UNCHANGED sourceVars

MuxerRuns ==
    /\ \/ Muxer!RotateOpens \/ Muxer!setupOutputStream \/ Muxer!PendingMarker
       \/ Muxer!WriteFrame \/ Muxer!updateLivePlaylist
       \/ Muxer!updateArchivePlaylist \/ Muxer!CloseFinal
    /\ UNCHANGED <<vars, wpc, packet, sourceVars, spliceVars>>

(* The loop is left and the worker stopped.                                *)
Close ==
    /\ wpc = "read"
    /\ Muxer!close
    /\ UNCHANGED <<vars, wpc, packet, sourceVars, spliceVars>>

PipeNext ==
    \/ Open \/ Reconnect \/ ReadFrame \/ ReadOther \/ Mark \/ Write
    \/ MuxerRuns \/ Close

PipeSpec == PipeInit /\ [][PipeNext]_pipeVars
-----------------------------------------------------------------------------
(* The clock keeps the precondition of writePacket (HlsMuxer.h:49), on     *)
(* which everything HlsMuxer promises rests: whatever the source does, the *)
(* muxer is driven as its own specification allows.                        *)
ImplementsMuxer == Muxer!Spec

Marked(i) == \E k \in DOMAIN segments : segments[k].idx = i /\ segments[k].disc

Marking(i) == Marked(i) \/ (flagNext /\ cur /\ i = index)

(* Every reconnect is told to the players, and nothing else is: the marker *)
(* is not at the segment in which the new connection begins, but it is at  *)
(* most two segments ahead of it.                                          *)
MarkersMatchSplices ==
    pc = "ready" /\ wpc = "read" /\ ~splice =>
        /\ \A i \in splices : \E k \in 0..2 : Marking(i - k)
        /\ \A k \in DOMAIN segments : segments[k].disc =>
               \E d \in 0..2 : segments[k].idx + d \in splices
-----------------------------------------------------------------------------
(* What a comment, a doc or a test says and the code does not do: TLC      *)
(* refutes each property below (README, "Disagreements").                  *)

(* HlsMuxer.h:46: "If packet duration would exceed segment target, a new   *)
(* segment is started first".  Counted in frames of a steady source, a     *)
(* segment lasts less than even twice the target.  After a reconnect the   *)
(* source begins again at 0, and the clock takes every frame for one tick  *)
(* after the last until the source has caught up.                          *)
SegmentsEndInTime == \A s \in Steps : (frames - 1) * Rescale(s) < 2 * SegDur

(* docs/http-api.md:227: "Includes #EXT-X-DISCONTINUITY markers after      *)
(* reconnects": the segment with the first frame of the new connection is  *)
(* the marked one.                                                         *)
SpliceIsMarked ==
    pc = "ready" /\ wpc = "read" => \A i \in splices : i < index => Marked(i)
=============================================================================
