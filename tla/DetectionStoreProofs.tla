------------------------ MODULE DetectionStoreProofs ------------------------
(***************************************************************************)
(* Frames and rows of one stream, for any number of frames, detections,    *)
(* failed writes and restarts of the process.  Between two steps of the    *)
(* loop the name in hand is already on disk as far as the loop has come    *)
(* (HandInv), and whatever is on disk stays, or is overwritten by          *)
(* something of the same type that is no older (FilesInv).                 *)
(***************************************************************************)
EXTENDS DetectionStore, TLAPS

(* The detection and the name that the loop works with.                    *)
HandInv ==
    /\ pc = "again" => frame > 0
    /\ \A d \in dets : d[1] = frame
    /\ pc \in {"annotate", "raw", "insert"} =>
        /\ det \in Detection /\ name \in Name
        /\ det[1] = frame /\ name[2] = TypeOf(det)
    /\ pc = "annotate" => name \in DOMAIN annotated
    /\ pc \in {"raw", "insert"} =>
           name \in failed \/ (name \in DOMAIN annotated /\ annotated[name] = det)
    /\ pc = "insert" => name \in failed \union raw

(* A file shows what its name says, and nothing that was not taken yet.    *)
FilesInv ==
    \A n \in DOMAIN annotated :
        \/ annotated[n] = Part
        \/ /\ annotated[n] \in Detection
           /\ TypeOf(annotated[n]) = n[2] /\ annotated[n][1] <= frame

(* A row's file is of its kind, and shows no earlier frame.                *)
RowsInv ==
    \A r \in rows :
        /\ TypeOf(r.det) = r.path[2] /\ r.det[1] <= frame
        /\ \/ r.path \in failed
           \/ /\ r.path \in DOMAIN annotated \intersect raw
              /\ annotated[r.path] = Part \/ annotated[r.path][1] >= r.det[1]

StoreInv == TypeOK /\ HandInv /\ FilesInv /\ RowsInv
-----------------------------------------------------------------------------
LEMMA DetectionFacts ==
    /\ \A d \in Detection : d # Part /\ d # None /\ d[1] \in 1..MaxFrames
                            /\ TypeOf(d) \in Types
    /\ Part # None
BY DEF Detection, Part, None, TypeOf

(* Writing a file leaves the others as they are.                           *)
LEMMA PutFacts ==
    ASSUME NEW n, NEW what
    PROVE  /\ DOMAIN Put(annotated, n, what) = DOMAIN annotated \union {n}
           /\ Put(annotated, n, what)[n] = what
           /\ \A x \in DOMAIN annotated \ {n} : Put(annotated, n, what)[x] = annotated[x]
BY DEF Put

LEMMA StoreInit == Init => StoreInv
BY StoreAssumption DEF Init, StoreInv, TypeOK, HandInv, FilesInv, RowsInv

(* Steps that leave the disk alone and do not go back to an earlier frame. *)
LEMMA DiskUntouched ==
    ASSUME StoreInv, TypeOK', HandInv', UNCHANGED diskVars, frame' >= frame
    PROVE  StoreInv'
<1>1. \A r \in rows : r.det \in Detection /\ r.det[1] \in Nat
  BY DetectionFacts DEF StoreInv, TypeOK
<1>2. frame \in Nat /\ frame' \in Nat
  BY StoreAssumption DEF StoreInv, TypeOK
<1>3. FilesInv'
  BY <1>2, DetectionFacts DEF StoreInv, FilesInv, diskVars
<1>4. RowsInv'
  BY <1>1, <1>2 DEF StoreInv, RowsInv, diskVars
<1>5. QED
  BY <1>3, <1>4 DEF StoreInv

LEMMA DetectKeeps == ASSUME StoreInv, Detect PROVE StoreInv'
<1>1. /\ frame \in 0..MaxFrames /\ MaxFrames \in Nat /\ MaxDetections \in Nat
      /\ pc \in {"wait", "again"} /\ pc' = "next"
      /\ UNCHANGED <<det, name, diskVars, now, crashes>>
  BY StoreAssumption DEF Detect, StoreInv, TypeOK
<1>2. frame' \in 1..MaxFrames /\ frame' >= frame
  BY <1>1 DEF Detect, StoreInv, HandInv
<1>3. PICK count \in 1..MaxDetections, type \in [1..MaxDetections -> Types] :
          dets' = {<<frame', i, type[i]>> : i \in 1..count}
  BY DEF Detect
<1>4. \A d \in dets' : d \in Detection /\ d[1] = frame'
  <2> SUFFICES ASSUME NEW d \in dets' PROVE d \in Detection /\ d[1] = frame'
    OBVIOUS
  <2>1. PICK i \in 1..count : d = <<frame', i, type[i]>>
    BY <1>3
  <2>2. i \in 1..MaxDetections /\ type[i] \in Types
    BY <1>1, <2>1
  <2>3. QED
    BY <1>2, <2>1, <2>2 DEF Detection
<1>5. TypeOK'
  BY <1>1, <1>2, <1>4 DEF StoreInv, TypeOK, diskVars
<1>6. HandInv'
  BY <1>1, <1>4 DEF HandInv
<1>7. QED
  BY <1>1, <1>2, <1>5, <1>6, DiskUntouched

(* A file is created, or written whole: for the detection in hand.         *)
LEMMA WriteKeeps ==
    ASSUME StoreInv, TypeOK', HandInv',
           NEW d \in Detection, NEW n \in Name, d[1] = frame, n[2] = TypeOf(d),
           NEW what \in {Part, d}, annotated' = Put(annotated, n, what),
           UNCHANGED <<frame, raw, rows, failed>>
    PROVE  StoreInv'
<1>1. /\ DOMAIN annotated' = DOMAIN annotated \union {n}
      /\ annotated'[n] = what
      /\ \A x \in DOMAIN annotated \ {n} : annotated'[x] = annotated[x]
  BY DEF Put
<1>2. frame \in Nat /\ \A r \in rows : r.det[1] \in Nat
  BY DetectionFacts DEF StoreInv, TypeOK
<1>3. FilesInv'
  <2> SUFFICES ASSUME NEW x \in DOMAIN annotated'
               PROVE  \/ annotated'[x] = Part
                      \/ /\ annotated'[x] \in Detection
                         /\ TypeOf(annotated'[x]) = x[2] /\ annotated'[x][1] <= frame
    BY DEF FilesInv
  <2>1. CASE x = n
    BY <1>1, <1>2, <2>1
  <2>2. CASE x # n
    BY <1>1, <2>2 DEF StoreInv, FilesInv
  <2>3. QED
    BY <2>1, <2>2
<1>4. RowsInv'
  <2> SUFFICES ASSUME NEW r \in rows, r.path \notin failed
               PROVE  /\ TypeOf(r.det) = r.path[2] /\ r.det[1] <= frame
                      /\ r.path \in DOMAIN annotated' \intersect raw
                      /\ annotated'[r.path] = Part \/ annotated'[r.path][1] >= r.det[1]
    BY DEF RowsInv, StoreInv
  <2>1. /\ TypeOf(r.det) = r.path[2] /\ r.det[1] <= frame
        /\ r.path \in DOMAIN annotated \intersect raw
        /\ annotated[r.path] = Part \/ annotated[r.path][1] >= r.det[1]
    BY DEF StoreInv, RowsInv
  <2>2. CASE r.path = n
    BY <1>1, <2>1, <2>2
  <2>3. CASE r.path # n
    BY <1>1, <2>1, <2>3
  <2>4. QED
    BY <1>1, <2>1, <2>2, <2>3
<1>5. QED
  BY <1>3, <1>4 DEF StoreInv

(* A write that fails marks the name, and changes no file.                 *)
LEMMA FailureKeeps ==
    ASSUME StoreInv, TypeOK', HandInv', failed \subseteq failed', raw \subseteq raw',
           UNCHANGED <<frame, annotated, rows>>
    PROVE  StoreInv'
BY DEF StoreInv, FilesInv, RowsInv

LEMMA NextDetectionKeeps == ASSUME StoreInv, NextDetection PROVE StoreInv'
<1>1. PICK d \in dets :
          det' = d /\ dets' = dets \ {d} /\ name' = <<now, TypeOf(d)>>
  BY DEF NextDetection
<1>2. /\ d \in Detection /\ d[1] = frame
      /\ name' \in Name /\ name'[2] = TypeOf(d)
  BY <1>1, DetectionFacts DEF StoreInv, TypeOK, HandInv, Name
<1>3. UNCHANGED <<frame, raw, rows, now, crashes>>
  BY DEF NextDetection
<1>4. CASE annotated' = Put(annotated, name', Part) /\ pc' = "annotate"
           /\ UNCHANGED failed
  <2>1. DOMAIN annotated' = DOMAIN annotated \union {name'}
    BY <1>4, PutFacts
  <2>2. TypeOK'
    BY <1>1, <1>2, <1>3, <1>4, <2>1 DEF StoreInv, TypeOK
  <2>3. HandInv'
    BY <1>1, <1>2, <1>3, <1>4, <2>1 DEF StoreInv, HandInv
  <2>4. QED
    BY <1>2, <1>3, <1>4, <2>2, <2>3, WriteKeeps
<1>5. CASE WriteFails(name') /\ pc' = "raw" /\ UNCHANGED annotated
  <2>1. failed' = failed \union {name'}
    BY <1>5 DEF WriteFails
  <2>2. TypeOK'
    BY <1>1, <1>2, <1>3, <1>5, <2>1 DEF StoreInv, TypeOK
  <2>3. HandInv'
    BY <1>1, <1>2, <1>3, <1>5, <2>1 DEF StoreInv, HandInv
  <2>4. QED
    BY <1>3, <1>5, <2>1, <2>2, <2>3, FailureKeeps
<1>6. QED
  BY <1>4, <1>5 DEF NextDetection

LEMMA SaveKeeps == ASSUME StoreInv, SaveAnnotated \/ SaveRaw PROVE StoreInv'
<1>1. CASE SaveAnnotated
  <2>1. /\ pc = "annotate" /\ pc' = "raw"
        /\ UNCHANGED <<frame, dets, det, name, raw, rows, now, crashes>>
    BY <1>1 DEF SaveAnnotated
  <2>2. /\ det \in Detection /\ name \in Name /\ det[1] = frame
        /\ name[2] = TypeOf(det) /\ name \in DOMAIN annotated
    BY <2>1 DEF StoreInv, HandInv
  <2>3. CASE annotated' = Put(annotated, name, det) /\ UNCHANGED failed
    <3>1. DOMAIN annotated' = DOMAIN annotated \union {name} /\ annotated'[name] = det
      BY <2>3, PutFacts
    <3>2. TypeOK'
      BY <2>1, <2>2, <2>3, <3>1 DEF StoreInv, TypeOK
    <3>3. HandInv'
      BY <2>1, <2>2, <3>1 DEF StoreInv, HandInv
    <3>4. QED
      BY <2>1, <2>2, <2>3, <3>2, <3>3, WriteKeeps
  <2>4. CASE WriteFails(name) /\ UNCHANGED annotated
    <3>1. failed' = failed \union {name}
      BY <2>4 DEF WriteFails
    <3>2. TypeOK'
      BY <2>1, <2>2, <2>4, <3>1 DEF StoreInv, TypeOK
    <3>3. HandInv'
      BY <2>1, <2>2, <3>1 DEF StoreInv, HandInv
    <3>4. QED
      BY <2>1, <2>4, <3>1, <3>2, <3>3, FailureKeeps
  <2>5. QED
    BY <1>1, <2>3, <2>4 DEF SaveAnnotated
<1>2. CASE SaveRaw
  <2>1. /\ pc = "raw" /\ pc' = "insert"
        /\ UNCHANGED <<frame, dets, det, name, annotated, rows, now, crashes>>
    BY <1>2 DEF SaveRaw
  <2>2. \/ raw' = raw \union {name} /\ failed' = failed
        \/ failed' = failed \union {name} /\ raw' = raw
    BY <1>2 DEF SaveRaw, WriteFails
  <2>3. /\ det \in Detection /\ name \in Name /\ det[1] = frame
        /\ name[2] = TypeOf(det)
        /\ name \in failed \/ (name \in DOMAIN annotated /\ annotated[name] = det)
    BY <2>1 DEF StoreInv, HandInv
  <2>4. TypeOK'
    BY <2>1, <2>2, <2>3 DEF StoreInv, TypeOK
  <2>5. HandInv'
    BY <2>1, <2>2, <2>3 DEF StoreInv, HandInv
  <2>6. QED
    BY <2>1, <2>2, <2>4, <2>5, FailureKeeps
<1>3. QED
  BY <1>1, <1>2

(* The row is written when both files are there.                           *)
LEMMA InsertKeeps == ASSUME StoreInv, Insert PROVE StoreInv'
<1> DEFINE row == [det |-> det, path |-> name]
<1>1. /\ pc = "insert" /\ pc' = "next" /\ det' = None /\ name' = None
      /\ UNCHANGED <<frame, dets, annotated, raw, failed, now, crashes>>
      /\ rows' \in {rows, rows \union {row}}
  BY DEF Insert
<1>2. /\ det \in Detection /\ name \in Name /\ det[1] = frame /\ frame \in Nat
      /\ name[2] = TypeOf(det)
      /\ name \in failed \/ (name \in DOMAIN annotated /\ annotated[name] = det)
      /\ name \in failed \union raw
  BY <1>1 DEF StoreInv, HandInv, TypeOK
<1>3. /\ row \in [det : Detection, path : Name]
      /\ row.det = det /\ row.path = name
  BY <1>2
<1> HIDE DEF row
<1>4. TypeOK'
  BY <1>1, <1>3 DEF StoreInv, TypeOK
<1>5. HandInv' /\ FilesInv'
  BY <1>1 DEF StoreInv, HandInv, FilesInv
<1>6. RowsInv'
  <2> SUFFICES ASSUME NEW r \in rows'
               PROVE  /\ TypeOf(r.det) = r.path[2] /\ r.det[1] <= frame
                      /\ \/ r.path \in failed
                         \/ /\ r.path \in DOMAIN annotated \intersect raw
                            /\ \/ annotated[r.path] = Part
                               \/ annotated[r.path][1] >= r.det[1]
    BY <1>1 DEF RowsInv
  <2>1. CASE r \in rows
    BY <2>1 DEF StoreInv, RowsInv
  <2>2. CASE r = row
    BY <1>2, <1>3, <2>2
  <2>3. QED
    BY <1>1, <2>1, <2>2
<1>7. QED
  BY <1>4, <1>5, <1>6 DEF StoreInv

(* The steps that end a frame, or a process, and the clock.                *)
LEMMA OthersKeep ==
    ASSUME StoreInv, GiveUp \/ FrameDone \/ Crash \/ Tick \/ UNCHANGED vars
    PROVE  StoreInv'
<1>1. UNCHANGED <<diskVars, frame>> /\ frame' >= frame
  BY DEF GiveUp, FrameDone, Crash, Tick, vars, workerVars, StoreInv, TypeOK
<1>2. TypeOK'
  BY StoreAssumption DEF GiveUp, FrameDone, Crash, Tick, vars, workerVars, diskVars,
         StoreInv, TypeOK
<1>3. HandInv'
  BY DEF GiveUp, FrameDone, Crash, Tick, vars, workerVars, diskVars, StoreInv, HandInv
<1>4. QED
  BY <1>1, <1>2, <1>3, DiskUntouched

(* How files and rows hang together, at every step of every process.       *)
THEOREM StoreHolds == Spec => []StoreInv
<1>1. StoreInv /\ [Next]_vars => StoreInv'
  BY DetectKeeps, NextDetectionKeeps, SaveKeeps, InsertKeeps, OthersKeep
     DEF Next, processSegment
<1>2. QED
  BY <1>1, StoreInit, PTL DEF Spec

(* RowsHaveFrames: a row is never without its files, wherever the process  *)
(* is cut off, unless a write failed unnoticed.                            *)
THEOREM RowsAlwaysHaveFrames == Spec => []RowsHaveFrames
<1>1. StoreInv => RowsHaveFrames
  BY DEF StoreInv, RowsInv, RowsHaveFrames
<1>2. QED
  BY <1>1, StoreHolds, PTL

(* ServesItsKind: what is served for a detection is of its type and, but   *)
(* for failed writes, of no earlier frame, however files were overwritten. *)
THEOREM AlwaysServesItsKind == Spec => []ServesItsKind
<1>1. ASSUME StoreInv, NEW r \in rows,
             NEW image \in queryDetectionFrame(r) \ {None, Part}
      PROVE  /\ TypeOf(image) = TypeOf(r.det)
             /\ r.path \in failed \/ image[1] >= r.det[1]
  <2>1. r.path \in DOMAIN annotated /\ image = annotated[r.path] /\ image # Part
    BY <1>1 DEF queryDetectionFrame
  <2>2. QED
    BY <1>1, <2>1 DEF StoreInv, FilesInv, RowsInv
<1>2. StoreInv => ServesItsKind
  BY <1>1 DEF ServesItsKind
<1>3. QED
  BY <1>2, StoreHolds, PTL
=============================================================================
