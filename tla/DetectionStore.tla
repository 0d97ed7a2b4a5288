--------------------------- MODULE DetectionStore ---------------------------
(***************************************************************************)
(* What DetectionWorker._process_segment leaves behind for one stream      *)
(* (src/ai_inference/detection_worker.py), and what the HTTP server reads  *)
(* back of it (HttpServer::queryDetectionFrame): for each detection an     *)
(* annotated and a raw frame, named after the second and the object type,  *)
(* and a row in the database that holds their paths.                       *)
(*                                                                         *)
(* A detection is <<frame, number, type>>, a name <<second, type>>.  The   *)
(* directory annotated/ maps a name to what its file shows, Part while the *)
(* file is incomplete; of raw/ only the names matter.                      *)
(***************************************************************************)
EXTENDS Integers, FiniteSets

CONSTANTS
    Types,          \* the detector's classes
    MaxFrames,      \* bound: frames taken from segments
    MaxDetections,  \* bound: detections in a frame
    MaxFailures,    \* bound: names imwrite() fails to write
    MaxTime,        \* bound: the clock, in seconds
    MaxCrashes      \* bound: ends of the process

ASSUME StoreAssumption ==
    /\ MaxFrames \in Nat /\ MaxDetections \in Nat /\ MaxTime \in Nat
    /\ MaxFailures \in Nat /\ MaxCrashes \in Nat

VARIABLES
    pc,             \* where the worker is in the loop over the detections
    now,            \* int(time.time())
    frame,          \* the frame being worked on
    dets,           \* the detections the loop has yet to visit
    det,            \* the present one
    name,           \* frame_filename
    annotated,      \* the directory annotated/
    raw,            \* the directory raw/
    rows,           \* the table detections
    failed,         \* history: the names imwrite() failed to write, unnoticed
    crashes

workerVars == <<pc, frame, dets, det, name>>
diskVars == <<annotated, raw, rows, failed>>
vars == <<workerVars, diskVars, now, crashes>>

None == <<>>
Part == <<0>>
Detection == (1..MaxFrames) \X (1..MaxDetections) \X Types
Name == (0..MaxTime) \X Types
TypeOf(d) == d[3]

Init ==
    /\ pc = "wait" /\ frame = 0 /\ dets = {} /\ det = None /\ name = None
    /\ annotated = [n \in {} |-> None] /\ raw = {} /\ rows = {}
    /\ failed = {}
    /\ now = 0 /\ crashes = 0

Put(dir, n, what) == [x \in DOMAIN dir \union {n} |-> IF x = n THEN what ELSE dir[x]]

(* cv2.imwrite returns False, which save_frame does not look at.           *)
WriteFails(n) ==
    /\ Cardinality(failed \union {n}) <= MaxFailures
    /\ failed' = failed \union {n}
-----------------------------------------------------------------------------
(* A frame of the next segment, or, in a process that starts over, of the  *)
(* last one once more; and the detections in it.                           *)
Detect ==
    /\ \/ pc = "wait" /\ frame < MaxFrames /\ frame' = frame + 1
       \/ pc = "again" /\ frame' = frame
    /\ \E count \in 1..MaxDetections, type \in [1..MaxDetections -> Types] :
          dets' = {<<frame', i, type[i]>> : i \in 1..count}
    /\ pc' = "next"
    /\ UNCHANGED <<det, name, diskVars, now, crashes>>

(* Wrong: the name is only the second.                                     *)
NextDetectionBySecond ==
    /\ pc = "next" /\ dets # {}
    /\ \E d \in dets :
          /\ \A e \in dets : d[2] <= e[2]
          /\ det' = d
          /\ dets' = dets \ {d}
    /\ name' = <<now, CHOOSE t \in Types : TRUE>>
    /\ annotated' = Put(annotated, name', Part)
    /\ pc' = "annotate"
    /\ UNCHANGED <<frame, raw, rows, failed, now, crashes>>

(* The name is taken from the clock, and cv2.imwrite opens the file.       *)
NextDetection ==
    /\ pc = "next" /\ dets # {}
    /\ \E d \in dets :
          /\ \A e \in dets : d[2] <= e[2]
          /\ det' = d
          /\ dets' = dets \ {d}
          /\ name' = <<now, TypeOf(d)>>
    /\ \/ /\ annotated' = Put(annotated, name', Part)
          /\ pc' = "annotate"
          /\ UNCHANGED failed
       \/ /\ WriteFails(name')
          /\ pc' = "raw"
          /\ UNCHANGED annotated
    /\ UNCHANGED <<frame, raw, rows, now, crashes>>

(* Wrong: the row is written first.                                        *)
SaveAnnotatedRowFirst ==
    /\ pc = "annotate"
    /\ annotated' = Put(annotated, name, det)
    /\ rows' = rows \union {[det |-> det, path |-> name]}
    /\ pc' = "raw"
    /\ UNCHANGED <<frame, dets, det, name, raw, failed, now, crashes>>

SaveAnnotated ==
    /\ pc = "annotate"
    /\ \/ annotated' = Put(annotated, name, det) /\ UNCHANGED failed
       \/ WriteFails(name) /\ UNCHANGED annotated
    /\ pc' = "raw"
    /\ UNCHANGED <<frame, dets, det, name, raw, rows, now, crashes>>

SaveRaw ==
    /\ pc = "raw"
    /\ \/ raw' = raw \union {name} /\ UNCHANGED failed
       \/ WriteFails(name) /\ UNCHANGED raw
    /\ pc' = "insert"
    /\ UNCHANGED <<frame, dets, det, name, annotated, rows, now, crashes>>

(* insert_detection commits, or raises and the detection is passed over.   *)
Insert ==
    /\ pc = "insert"
    /\ rows' = rows \union {[det |-> det, path |-> name]} \/ UNCHANGED rows
    /\ pc' = "next" /\ det' = None /\ name' = None
    /\ UNCHANGED <<frame, dets, annotated, raw, failed, now, crashes>>

(* Another exception gives up the frame.                                   *)
GiveUp ==
    /\ pc \in {"next", "annotate", "raw"}
    /\ pc' = "wait" /\ dets' = {} /\ det' = None /\ name' = None
    /\ UNCHANGED <<frame, diskVars, now, crashes>>

FrameDone ==
    /\ pc = "next" /\ dets = {}
    /\ pc' = "wait"
    /\ UNCHANGED <<frame, dets, det, name, diskVars, now, crashes>>

(* The process ends, and another starts with the segment that is the last  *)
(* of the list: the one the first was at, or a newer one.  That a restart  *)
(* of the streamer reorders the list is DetectionPool's matter.            *)
Crash ==
    /\ crashes < MaxCrashes /\ frame > 0
    /\ crashes' = crashes + 1
    /\ pc' \in {"wait", "again"} /\ dets' = {} /\ det' = None /\ name' = None
    /\ UNCHANGED <<frame, diskVars, now>>

Tick ==
    /\ now < MaxTime
    /\ now' = now + 1
    /\ UNCHANGED <<workerVars, diskVars, crashes>>
-----------------------------------------------------------------------------
(* GET /detections/frame/<id>: the path is read from the row, and then the *)
(* file, where the worker may have gone on in between.  Rows are never     *)
(* deleted, so what a request can get is what it can get now for any row:  *)
(* the image, or None for a 404, which an incomplete file is answered with *)
(* as long as it lacks the first bytes of a JPEG.                          *)
queryDetectionFrame(r) ==
    IF r.path \notin DOMAIN annotated THEN {None}
    ELSE IF annotated[r.path] = Part THEN {None, Part}
    ELSE {annotated[r.path]}
-----------------------------------------------------------------------------
processSegment ==
    \/ Detect \/ NextDetection \/ SaveAnnotated \/ SaveRaw \/ Insert
    \/ GiveUp \/ FrameDone

Next == processSegment \/ Crash \/ Tick

Spec == Init /\ [][Next]_vars
-----------------------------------------------------------------------------
TypeOK ==
    /\ pc \in {"wait", "again", "next", "annotate", "raw", "insert"}
    /\ now \in 0..MaxTime /\ frame \in 0..MaxFrames /\ crashes \in 0..MaxCrashes
    /\ dets \subseteq Detection /\ det \in Detection \union {None}
    /\ name \in Name \union {None}
    /\ DOMAIN annotated \subseteq Name /\ raw \subseteq Name /\ failed \subseteq Name
    /\ rows \subseteq [det : Detection, path : Name]

(* Whoever finds a row finds its two files, unless the disk took them not: *)
(* the row is committed last, and wherever the process is cut off no row   *)
(* is left without them.                                                   *)
RowsHaveFrames ==
    \A r \in rows : r.path \in failed \union (DOMAIN annotated \intersect raw)

(* Although files are overwritten, by detections of the same second and by *)
(* a worker that starts over, a whole image served for a detection shows   *)
(* one of the same type; and of no earlier frame, unless a write failed.   *)
ServesItsKind ==
    \A r \in rows : \A image \in queryDetectionFrame(r) \ {None, Part} :
        /\ TypeOf(image) = TypeOf(r.det)
        /\ r.path \in failed \/ image[1] >= r.det[1]
-----------------------------------------------------------------------------
(* What a comment, a doc or a test says and the code does not do: TLC      *)
(* refutes each property below (README, "Disagreements").                  *)

(* docs/http-api.md:732: "Returns an annotated frame image with bounding   *)
(* boxes drawn for all detections in that frame", so for the detection     *)
(* that was asked for.  Two of one type in a frame share a file name.      *)
ServesItsDetection ==
    \A r \in rows : queryDetectionFrame(r) \subseteq {None, Part, r.det}

(* detection_worker.py:147: "Save raw frame (always available now)".       *)
(* cv2.imwrite reports a failure by its result, which save_frame ignores.  *)
RawAvailable == \A r \in rows : r.path \in raw
=============================================================================
