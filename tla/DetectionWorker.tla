--------------------------- MODULE DetectionWorker ---------------------------
(***************************************************************************)
(* DetectionWorker (src/ai_inference/detection_worker.py) with its         *)
(* HlsReader: one thread per stream follows the archive playlist that the  *)
(* muxer writes, and stores what it detects.  The main thread starts and   *)
(* stops it; the waits of stop() are bounded.                              *)
(*                                                                         *)
(* Of the playlist only the last line matters, and of a segment how many   *)
(* detections are left to store.                                           *)
(***************************************************************************)
EXTENDS Integers

CONSTANTS
    Streams,
    MaxSegment,     \* bound: segments written per stream
    MaxReopens,     \* bound: times the muxer of a stream is opened again
    MaxDetections   \* bound: detections in one frame

ASSUME DetectionAssumption ==
    MaxSegment \in Nat /\ MaxReopens \in Nat /\ MaxDetections \in Nat \ {0}

VARIABLES
    newest,         \* the highest segment number listed, 0 before the first
    tail,           \* the last entry of archive.m3u8, 0 when there is none
    reopens,        \* how often the muxer was opened again
    thread,         \* where the thread is
    running,        \* self.running
    db,             \* the worker's connection to the database
    lastIndex,      \* hls_reader.last_segment_index
    segment,        \* the segment being processed
    left,           \* its detections yet to be stored
    taken,          \* the segments this worker has taken
    stored,         \* those of which it has stored a detection
    dropped,        \* a detection met a connection that was closed
    stopper         \* where stop() is

archiveVars == <<newest, tail, reopens>>
threadVars == <<thread, lastIndex, segment, left, taken, stored, dropped>>
controlVars == <<running, db, stopper>>
vars == <<archiveVars, threadVars, controlVars>>

ThreadPc == {"none", "begin", "check", "poll", "extract", "save", "insert", "close", "done"}
StopPc == {"no", "join", "rejoin", "stopped"}

Init ==
    /\ newest = [s \in Streams |-> 0]
    /\ tail = [s \in Streams |-> 0]
    /\ reopens = [s \in Streams |-> 0]
    /\ thread = [s \in Streams |-> "none"]
    /\ running = [s \in Streams |-> FALSE]
    /\ db = [s \in Streams |-> "none"]
    /\ lastIndex = [s \in Streams |-> -1]
    /\ segment = [s \in Streams |-> 0]
    /\ left = [s \in Streams |-> 0]
    /\ taken = [s \in Streams |-> {}]
    /\ stored = [s \in Streams |-> {}]
    /\ dropped = [s \in Streams |-> FALSE]
    /\ stopper = [s \in Streams |-> "no"]

GoesTo(s, pc) == thread' = [thread EXCEPT ![s] = pc]
-----------------------------------------------------------------------------
(* The muxer.  A finished segment is appended to the list; a muxer that is *)
(* opened again lists what it finds in the order of directory_iterator,    *)
(* and a cleanup may leave nothing to list.                                *)

SegmentCloses(s) ==
    /\ newest[s] < MaxSegment
    /\ newest' = [newest EXCEPT ![s] = @ + 1]
    /\ tail' = [tail EXCEPT ![s] = newest[s] + 1]
    /\ UNCHANGED <<reopens, threadVars, controlVars>>

MuxerReopens(s) ==
    /\ reopens[s] < MaxReopens
    /\ reopens' = [reopens EXCEPT ![s] = @ + 1]
    /\ \E last \in 0..newest[s] : tail' = [tail EXCEPT ![s] = last]
    /\ UNCHANGED <<newest, threadVars, controlVars>>
-----------------------------------------------------------------------------
(* run(), on the worker's thread.                                          *)

RunBegins(s) ==
    /\ thread[s] = "begin"
    /\ running' = [running EXCEPT ![s] = TRUE]
    /\ GoesTo(s, "check")
    /\ UNCHANGED <<archiveVars, db, stopper, lastIndex, segment, left, taken,
                   stored, dropped>>

RunCheck(s) ==
    /\ thread[s] = "check"
    /\ GoesTo(s, IF running[s] THEN "poll" ELSE "close")
    /\ UNCHANGED <<archiveVars, controlVars, lastIndex, segment, left, taken,
                   stored, dropped>>

(* Wrong: a last entry that is another one is taken for a new one.         *)
IsNewOther(s) == tail[s] # 0 /\ tail[s] # lastIndex[s]

(* Wrong: only the next number will do.                                    *)
IsNewNext(s) == tail[s] # 0 /\ (lastIndex[s] = -1 \/ tail[s] = lastIndex[s] + 1)

IsNew(s) == tail[s] # 0 /\ tail[s] > lastIndex[s]

(* wait_for_new_segment: the last entry of the list, if it is newer than   *)
(* any taken before ...                                                    *)
SegmentFound(s) ==
    /\ thread[s] = "poll"
    /\ IsNew(s)
    /\ lastIndex' = [lastIndex EXCEPT ![s] = tail[s]]
    /\ segment' = [segment EXCEPT ![s] = tail[s]]
    /\ taken' = [taken EXCEPT ![s] = @ \union {tail[s]}]
    /\ GoesTo(s, "extract")
    /\ UNCHANGED <<archiveVars, controlVars, left, stored, dropped>>

(* ... or nothing for 10 s; an exception of the reader ends run().         *)
NothingFound(s) ==
    /\ thread[s] = "poll"
    /\ \/ ~IsNew(s) /\ GoesTo(s, "check")
       \/ GoesTo(s, "close")
    /\ UNCHANGED <<archiveVars, controlVars, lastIndex, segment, left, taken,
                   stored, dropped>>

(* _process_segment up to its loop: the file is gone, no frame comes out   *)
(* of it, nothing is detected, something raises; or there are detections.  *)
Detect(s) ==
    /\ thread[s] = "extract"
    /\ \/ GoesTo(s, "check") /\ UNCHANGED left
       \/ /\ \E n \in 1..MaxDetections : left' = [left EXCEPT ![s] = n]
          /\ GoesTo(s, "save")
    /\ UNCHANGED <<archiveVars, controlVars, lastIndex, segment, taken, stored, dropped>>

(* The two frames of a detection are saved; a failure there gives up the   *)
(* whole segment.                                                          *)
SaveFrames(s) ==
    /\ thread[s] = "save"
    /\ \/ GoesTo(s, "insert")
       \/ GoesTo(s, "check")
    /\ UNCHANGED <<archiveVars, controlVars, lastIndex, segment, left, taken,
                   stored, dropped>>

(* insert_detection: an error is logged, and the next detection follows.   *)
Insert(s) ==
    /\ thread[s] = "insert"
    /\ \/ db[s] = "open" /\ stored' = [stored EXCEPT ![s] = @ \union {segment[s]}]
       \/ UNCHANGED stored
    /\ dropped' = [dropped EXCEPT ![s] = @ \/ db[s] = "closed"]
    /\ left' = [left EXCEPT ![s] = @ - 1]
    /\ GoesTo(s, IF left[s] = 1 THEN "check" ELSE "save")
    /\ UNCHANGED <<archiveVars, controlVars, lastIndex, segment, taken>>

RunEnds(s) ==
    /\ thread[s] = "close"
    /\ db' = [db EXCEPT ![s] = "closed"]
    /\ GoesTo(s, "done")
    /\ UNCHANGED <<archiveVars, running, stopper, lastIndex, segment, left, taken,
                   stored, dropped>>
-----------------------------------------------------------------------------
(* The constructor, start() and stop(), on the main thread.                *)

start(s) ==
    /\ thread[s] = "none"
    /\ db' = [db EXCEPT ![s] = "open"]
    /\ GoesTo(s, "begin")
    /\ UNCHANGED <<archiveVars, running, stopper, lastIndex, segment, left, taken,
                   stored, dropped>>

StopFlag(s) ==
    /\ stopper[s] = "no"
    /\ running' = [running EXCEPT ![s] = FALSE]
    /\ stopper' = [stopper EXCEPT ![s] = "join"]
    /\ UNCHANGED <<archiveVars, threadVars, db>>

(* Wrong: join() without a timeout.                                        *)
StopCloseWaits(s) ==
    /\ stopper[s] = "join"
    /\ thread[s] = "done"
    /\ db' = [db EXCEPT ![s] = "closed"]
    /\ stopper' = [stopper EXCEPT ![s] = "rejoin"]
    /\ UNCHANGED <<archiveVars, threadVars, running>>

(* Wrong: closing the connection is left to the thread.                    *)
StopCloseNot(s) ==
    /\ stopper[s] = "join"
    /\ stopper' = [stopper EXCEPT ![s] = "rejoin"]
    /\ UNCHANGED <<archiveVars, threadVars, running, db>>

(* The thread is over, or 5 s are, and the connection is closed.           *)
StopClose(s) ==
    /\ stopper[s] = "join"
    /\ db' = [db EXCEPT ![s] = "closed"]
    /\ stopper' = [stopper EXCEPT ![s] = "rejoin"]
    /\ UNCHANGED <<archiveVars, threadVars, running>>

(* Another 5 s at most.                                                    *)
StopReturn(s) ==
    /\ stopper[s] = "rejoin"
    /\ stopper' = [stopper EXCEPT ![s] = "stopped"]
    /\ UNCHANGED <<archiveVars, threadVars, running, db>>
-----------------------------------------------------------------------------
run(s) ==
    \/ RunBegins(s) \/ RunCheck(s) \/ SegmentFound(s) \/ NothingFound(s)
    \/ Detect(s) \/ SaveFrames(s) \/ Insert(s) \/ RunEnds(s)

StopStep(s) == StopClose(s) \/ StopReturn(s)

TypeOK ==
    /\ newest \in [Streams -> 0..MaxSegment] /\ tail \in [Streams -> 0..MaxSegment]
    /\ reopens \in [Streams -> 0..MaxReopens]
    /\ thread \in [Streams -> ThreadPc]
    /\ running \in [Streams -> BOOLEAN]
    /\ db \in [Streams -> {"none", "open", "closed"}]
    /\ lastIndex \in [Streams -> -1..MaxSegment]
    /\ segment \in [Streams -> 0..MaxSegment]
    /\ left \in [Streams -> 0..MaxDetections]
    /\ taken \in [Streams -> SUBSET (1..MaxSegment)]
    /\ stored \in [Streams -> SUBSET (1..MaxSegment)]
    /\ dropped \in [Streams -> BOOLEAN]
    /\ stopper \in [Streams -> StopPc]
=============================================================================
