--------------------------- MODULE HlsMuxerProofs ---------------------------
(***************************************************************************)
(* The segment directory of HlsMuxer, proved for every number of segments, *)
(* runs, crashes and failed calls.  DirectoryInv is inductive: numbers     *)
(* below `index' are used up, unless the scan in open() missed the highest *)
(* one (NumberInv); the phases of writePacket say whether a segment is     *)
(* open (PhaseInv); and segments_ tracks the files on disk, up to those    *)
(* the cleanup is about to forget and those open() did not read (TrackInv).*)
(***************************************************************************)
EXTENDS HlsMuxer, SequenceTheorems, FiniteSetTheorems, TLAPS

MemoryInv ==
    /\ segments \in Seq(Segment)
    /\ cur \in BOOLEAN /\ index \in Nat
    /\ elapsed \in Int \union {NoPts} /\ gap \in Nat
    /\ flagNext \in BOOLEAN /\ pending \in BOOLEAN
    /\ Files \subseteq Nat /\ IsFiniteSet(Files) /\ \A i \in Files : disk[i] \in Nat
    /\ now \in Nat /\ highest \in Int

PhaseInv ==
    /\ after \in {"down", "ready", "rotate", "frame", "final"}
    /\ pc \in {"setup", "marker", "frame", "cleanup", "delete"} => cur
    /\ pc \in {"live", "archive"} /\ after = "frame" => cur
    /\ pc = "rotate" \/ (pc \in {"live", "archive"} /\ after = "rotate") => ~cur

NumberInv ==
    /\ highest >= -1
    /\ \A i \in Files : i <= highest
    /\ highest >= 0 => highest \in Files
    /\ pc # "down" /\ highest \notin unseen =>
           IF cur THEN index = highest ELSE index > highest

TrackInv ==
    /\ Lost \subseteq Files
    /\ pc # "down" =>
        /\ \A k \in DOMAIN segments : segments[k].idx < index
        /\ \A j, k \in DOMAIN segments : segments[j].idx = segments[k].idx => j = k
        /\ \A i \in untimed : i < index
        /\ cur => index \notin unseen
        /\ Lost \intersect Entries(segments) = {}
        /\ Files \subseteq Entries(segments) \union Current \union Lost
        /\ Current \subseteq Files
    /\ pc \notin {"down", "delete", "forget"} => Entries(segments) \subseteq Files
    /\ pc = "delete" => sweep \subseteq Entries(segments)

DirectoryInv == MemoryInv /\ PhaseInv /\ NumberInv /\ TrackInv
-----------------------------------------------------------------------------
(* Sequences of segments.                                                  *)

LEMMA SeqFacts ==
    ASSUME NEW s \in Seq(Segment)
    PROVE  /\ Len(s) \in Nat
           /\ DOMAIN s = 1..Len(s)
           /\ \A k \in DOMAIN s : /\ s[k] \in Segment
                                  /\ s[k].idx \in Nat
                                  /\ s[k].created \in Int
                                  /\ s[k].dur \in Int
<1>1. Len(s) \in Nat /\ DOMAIN s = 1..Len(s)
  BY LenProperties
<1>2. ASSUME NEW k \in DOMAIN s PROVE s[k] \in Segment
  BY <1>1, ElementOfSeq
<1>3. QED
  BY <1>1, <1>2 DEF Segment

LEMMA FunctionIsSeq ==
    ASSUME NEW n \in Nat, NEW f \in [1..n -> Segment]
    PROVE  /\ f \in Seq(Segment) /\ Len(f) = n
           /\ DOMAIN f = 1..n
<1>1. f \in Seq(Segment)
  BY SeqDef
<1>2. QED
  BY <1>1, LenProperties

LEMMA AppendEntries ==
    ASSUME NEW s \in Seq(Segment), NEW e \in Segment
    PROVE  /\ Append(s, e) \in Seq(Segment)
           /\ DOMAIN Append(s, e) = 1..(Len(s) + 1)
           /\ \A k \in 1..Len(s) : Append(s, e)[k] = s[k]
           /\ Append(s, e)[Len(s) + 1] = e
           /\ Entries(Append(s, e)) = Entries(s) \union {e.idx}
<1> DEFINE t == Append(s, e)
<1>1. /\ t \in Seq(Segment) /\ Len(t) = Len(s) + 1
      /\ \A k \in 1..Len(s) : t[k] = s[k]
      /\ t[Len(s) + 1] = e
  BY SeqFacts
<1>2. DOMAIN t = 1..(Len(s) + 1)
  BY <1>1, LenProperties
<1> HIDE DEF t
<1>3. DOMAIN s = 1..Len(s) /\ Len(s) \in Nat
  BY SeqFacts
<1>4. Entries(t) = Entries(s) \union {e.idx}
  <2>1. ASSUME NEW x \in Entries(t) PROVE x \in Entries(s) \union {e.idx}
    BY <1>1, <1>2, <1>3, <2>1 DEF Entries
  <2>2. ASSUME NEW x \in Entries(s) PROVE x \in Entries(t)
    BY <1>1, <1>2, <1>3, <2>2 DEF Entries
  <2>3. e.idx \in Entries(t)
    BY <1>1, <1>2, <1>3 DEF Entries
  <2>4. QED
    BY <2>1, <2>2, <2>3
<1>5. QED
  BY <1>1, <1>2, <1>4 DEF t

(* Marking a discontinuity keeps the numbers.                              *)
SameNumbers(s, t) ==
    /\ t \in Seq(Segment)
    /\ DOMAIN t = DOMAIN s
    /\ \A k \in DOMAIN s : /\ t[k].idx = s[k].idx /\ t[k].created = s[k].created
                           /\ t[k].dur = s[k].dur

LEMMA SameEntries ==
    ASSUME NEW s \in Seq(Segment), NEW t, SameNumbers(s, t)
    PROVE  Entries(t) = Entries(s)
BY DEF SameNumbers, Entries

LEMMA MarkKeepsNumbers ==
    ASSUME segments \in Seq(Segment), flagNext \in BOOLEAN, MarkDiscontinuity
    PROVE  SameNumbers(segments, segments') /\ flagNext' \in BOOLEAN
<1>1. CASE segments = <<>>
  BY <1>1 DEF MarkDiscontinuity, SameNumbers
<1>2. CASE segments # <<>>
  <2>1. Len(segments) \in Nat \ {0} /\ DOMAIN segments = 1..Len(segments)
    BY <1>2, EmptySeq, SeqFacts
  <2> DEFINE n == Len(segments)
             e == [segments[n] EXCEPT !.disc = TRUE]
  <2>2. n \in 1..Len(segments) /\ segments[n] \in Segment
    BY <2>1, SeqFacts
  <2>3. /\ e \in Segment /\ e.idx = segments[n].idx
        /\ e.created = segments[n].created /\ e.dur = segments[n].dur
    BY <2>2 DEF Segment
  <2>4. segments' = [segments EXCEPT ![n] = e] /\ flagNext' = flagNext
    BY <1>2, <2>1 DEF MarkDiscontinuity
  <2> HIDE DEF e
  <2>5. /\ [segments EXCEPT ![n] = e] \in Seq(Segment)
        /\ \A j \in 1..Len(segments) :
               [segments EXCEPT ![n] = e][j] = IF j = n THEN e ELSE segments[j]
    BY <2>2, <2>3, ExceptSeq
  <2>6. DOMAIN segments' = DOMAIN segments
    BY <2>4
  <2>7. QED
    BY <2>1, <2>3, <2>4, <2>5, <2>6 DEF SameNumbers
<1>3. QED
  BY <1>1, <1>2

(* The segments that open() recovers are those it read in full, each once. *)
LEMMA RecoverEntries ==
    ASSUME MemoryInv, NEW timed \in SUBSET Files, NEW order \in Orders(timed),
           segments' = [k \in DOMAIN order |-> Recovered(order[k])]
    PROVE  /\ segments' \in Seq(Segment)
           /\ \A k \in DOMAIN segments' :
                  /\ segments'[k].idx \in timed
                  /\ segments'[k].created = disk[segments'[k].idx] - EpochShift
                  /\ segments'[k].dur = SegDur
           /\ \A j, k \in DOMAIN segments' :
                  segments'[j].idx = segments'[k].idx => j = k
           /\ Entries(segments') = timed
<1> DEFINE n == Cardinality(timed)
<1>1. order \in [1..n -> timed]
  BY DEF Orders
<1>2. \A k \in DOMAIN order : order[k] \in timed /\ Recovered(order[k]) \in Segment
  <2> TAKE k \in DOMAIN order
  <2>1. order[k] \in timed
    BY <1>1
  <2>2. order[k] \in Nat /\ disk[order[k]] \in Nat
    BY <2>1 DEF MemoryInv
  <2>3. EpochShift \in Nat /\ SegDur \in Nat
    BY MuxerAssumption
  <2>4. disk[order[k]] - EpochShift \in Int /\ SegDur \in Int
    BY <2>2, <2>3
  <2>5. QED
    BY <2>1, <2>2, <2>4 DEF Recovered, Segment
<1>3. /\ \A i \in timed : \E k \in DOMAIN order : order[k] = i
      /\ \A j, k \in DOMAIN order : order[j] = order[k] => j = k
  BY DEF Orders
<1>4. DOMAIN segments' = DOMAIN order
      /\ \A k \in DOMAIN order : /\ segments'[k].idx = order[k]
                                 /\ segments'[k].created = disk[order[k]] - EpochShift
                                 /\ segments'[k].dur = SegDur
  BY DEF Recovered
<1>5. segments' \in Seq(Segment)
  <2>1. n \in Nat
    BY FS_Subset, FS_CardinalityType DEF MemoryInv
  <2>2. DOMAIN order = 1..n
    BY <1>1
  <2>3. segments' \in [1..n -> Segment]
    BY <1>2, <2>2
  <2>4. QED
    BY <2>1, <2>3, FunctionIsSeq
<1>6. Entries(segments') = timed
  BY <1>2, <1>3, <1>4 DEF Entries
<1>7. QED
  BY <1>2, <1>3, <1>4, <1>5, <1>6

(* What open() finds, and what it reads in full.                           *)
Opened(found, timed) ==
    /\ found \subseteq Files /\ timed \subseteq found
    /\ "scan" \notin CanFail => found = Files
    /\ "stat" \notin CanFail => timed = found
    /\ segments' \in Seq(Segment) /\ Entries(segments') = timed
    /\ \A k \in DOMAIN segments' :
           /\ segments'[k].idx \in timed
           /\ segments'[k].created = disk[segments'[k].idx] - EpochShift
           /\ segments'[k].dur = SegDur
    /\ \A j, k \in DOMAIN segments' :
           segments'[j].idx = segments'[k].idx => j = k
    /\ unseen' = Files \ found /\ untimed' = found \ timed
    /\ \/ found = {} /\ index' = 0 /\ pc' = "ready" /\ after' = after
       \/ /\ found # {} /\ pc' = "live" /\ after' = "ready"
          /\ index' \in Nat /\ \A i \in found : i < index'

LEMMA OpenFinds ==
    ASSUME MemoryInv, open
    PROVE  \E found, timed : Opened(found, timed)
<1> DEFINE Finds(found, timed) ==
           /\ \E order \in Orders(timed) :
                  segments' = [k \in DOMAIN order |-> Recovered(order[k])]
           /\ \/ found = {} /\ index' = 0 /\ pc' = "ready" /\ UNCHANGED after
              \/ \E m \in found : /\ Newest(found, m) /\ index' = m + 1
                                 /\ PlaylistsThen("ready")
           /\ unseen' = Files \ found /\ untimed' = found \ timed
<1>1. PICK found \in Scans : \E timed \in Timed(found) : Finds(found, timed)
  BY DEF open
<1>2. PICK timed \in Timed(found) : Finds(found, timed)
  BY <1>1
<1>3. /\ found \subseteq Files /\ timed \subseteq found /\ timed \in SUBSET Files
      /\ "scan" \notin CanFail => found = Files
      /\ "stat" \notin CanFail => timed = found
  BY DEF Scans, Timed
<1>4. PICK order \in Orders(timed) :
          segments' = [k \in DOMAIN order |-> Recovered(order[k])]
  BY <1>2
<1>5. ASSUME NEW m \in found, Newest(found, m), index' = m + 1, PlaylistsThen("ready")
      PROVE  /\ found # {} /\ pc' = "live" /\ after' = "ready"
             /\ index' \in Nat /\ \A i \in found : i < index'
  <2>1. m \in Nat /\ \A i \in found : i \in Nat /\ i <= m
    BY <1>3, <1>5 DEF Newest, MemoryInv
  <2>2. QED
    BY <1>5, <2>1 DEF PlaylistsThen
<1>6. Opened(found, timed)
  BY <1>2, <1>3, <1>4, <1>5, RecoverEntries DEF Opened
<1>7. QED
  BY <1>6

(* CleanupForget removes the k-th entry.                                   *)
Removed(s, k, t) ==
    /\ t \in Seq(Segment)
    /\ \A j \in DOMAIN t : \E i \in DOMAIN s : t[j] = s[i]
    /\ (\A i, j \in DOMAIN s : s[i].idx = s[j].idx => i = j) =>
           \A i, j \in DOMAIN t : t[i].idx = t[j].idx => i = j
    /\ \A i \in DOMAIN s : i # k => \E j \in DOMAIN t : t[j] = s[i]

LEMMA RemoveEntries ==
    ASSUME NEW s \in Seq(Segment), NEW k \in DOMAIN s
    PROVE  Removed(s, k, Without(s, k))
<1> DEFINE t == Without(s, k)
<1>1. Len(s) \in Nat /\ DOMAIN s = 1..Len(s) /\ \A i \in DOMAIN s : s[i] \in Segment
  BY SeqFacts
<1>2. Len(s) - 1 \in Nat /\ k \in 1..Len(s)
  BY <1>1
<1>3. /\ t \in [1..(Len(s) - 1) -> Segment]
      /\ \A j \in 1..(Len(s) - 1) : t[j] = IF j < k THEN s[j] ELSE s[j + 1]
  BY <1>1, <1>2 DEF Without
<1>4. t \in Seq(Segment) /\ DOMAIN t = 1..(Len(s) - 1)
  BY <1>2, <1>3, FunctionIsSeq
<1> HIDE DEF t
<1> DEFINE old(j) == IF j < k THEN j ELSE j + 1
<1>5. \A j \in DOMAIN t : old(j) \in DOMAIN s /\ t[j] = s[old(j)]
  BY <1>1, <1>2, <1>3, <1>4
<1>6. \A i, j \in DOMAIN t : old(i) = old(j) => i = j
  BY <1>1, <1>2, <1>4
<1>7. \A i \in DOMAIN s : i # k => \E j \in DOMAIN t : t[j] = s[i]
  <2>1. ASSUME NEW i \in DOMAIN s, i # k PROVE \E j \in DOMAIN t : old(j) = i
    <3>1. CASE i < k
      BY <1>1, <1>2, <1>4, <3>1
    <3>2. CASE i > k
      <4>1. i - 1 \in DOMAIN t /\ old(i - 1) = i
        BY <1>1, <1>2, <1>4, <3>2
      <4>2. QED
        BY <4>1
    <3>3. QED
      BY <1>1, <1>2, <2>1, <3>1, <3>2
  <2>2. QED
    BY <1>5, <2>1
<1> HIDE DEF old
<1>8. \A j \in DOMAIN t : \E i \in DOMAIN s : t[j] = s[i]
  BY <1>5
<1>9. ASSUME \A i, j \in DOMAIN s : s[i].idx = s[j].idx => i = j,
             NEW i \in DOMAIN t, NEW j \in DOMAIN t, t[i].idx = t[j].idx
      PROVE  i = j
  <2>1. s[old(i)].idx = s[old(j)].idx
    BY <1>5, <1>9
  <2>2. old(i) = old(j)
    BY <1>5, <1>9, <2>1
  <2>3. QED
    BY <1>6, <2>2
<1>10. Removed(s, k, t)
  BY <1>4, <1>7, <1>8, <1>9 DEF Removed
<1>11. QED
  BY <1>10 DEF t
-----------------------------------------------------------------------------
(* Steps that touch neither the files nor the numbers.                     *)
LEMMA QuietStep ==
    ASSUME NumberInv, TrackInv, segments \in Seq(Segment),
           pc # "down", pc' # "delete",
           pc \in {"delete", "forget"} => pc' \in {"down", "delete", "forget"},
           Files' = Files, SameNumbers(segments, segments'),
           cur' = cur, index' = index, highest' = highest, lost' = lost
    PROVE  NumberInv' /\ TrackInv'
<1>1. NumberInv'
  BY DEF NumberInv, lost
<1>2. /\ Entries(segments)' = Entries(segments) /\ Current' = Current
      /\ Lost' = Lost /\ untimed' = untimed /\ unseen' = unseen
  BY SameEntries DEF Current, Entries, Lost, lost
<1>3. TrackInv'
  BY <1>2 DEF TrackInv, SameNumbers
<1>4. QED
  BY <1>1, <1>3

LEMMA SameNumbersRefl == \A s \in Seq(Segment) : SameNumbers(s, s)
BY DEF SameNumbers

(* Opening a segment.                                                      *)
LEMMA OpenSegment ==
    ASSUME DirectoryInv, pc # "down", pc \notin {"delete", "forget"}, ~cur,
           startNewSegment, gap' \in Nat, segments' = segments, index' = index
    PROVE  /\ NumberInv' /\ TrackInv'
           /\ cur' \in BOOLEAN /\ elapsed' \in Int \union {NoPts}
           /\ Files' \subseteq Nat /\ IsFiniteSet(Files')
           /\ highest' \in Int
           /\ pc' = "setup" => cur'
           /\ pc' \in {"setup", "failed"}
<1> USE DEF DirectoryInv, MemoryInv
<1>1. CASE pc' = "failed" /\ UNCHANGED <<disk, cur, elapsed, history>>
  <2>1. Files' = Files /\ highest' = highest /\ lost' = lost /\ cur' = cur
    BY <1>1 DEF Files, history
  <2>2. NumberInv' /\ TrackInv'
    BY <1>1, <2>1, QuietStep, SameNumbersRefl
  <2>3. QED
    BY <1>1, <2>1, <2>2
<1>2. CASE /\ disk' = [i \in Files \union {index} |-> IF i = index THEN now ELSE disk[i]]
           /\ cur' = TRUE
           /\ elapsed' = IF elapsed = NoPts THEN NoPts ELSE -gap'
           /\ highest' = IF index > highest THEN index ELSE highest
           /\ unseen' = unseen \ {index} /\ untimed' = untimed
           /\ pc' = "setup"
  <2>1. Files' = Files \union {index}
    BY <1>2 DEF Files
  <2>2. /\ highest \in unseen \/ index > highest
        /\ \A i \in Files : i \in Nat /\ i <= highest
    BY DEF NumberInv
  <2>3. NumberInv'
    BY <1>2, <2>1, <2>2 DEF NumberInv
  <2>4. /\ Entries(segments)' = Entries(segments) /\ Current' = {index} /\ Current = {}
        /\ Lost' = (unseen \ {index}) \union untimed
        /\ Lost = unseen \union untimed /\ index \notin untimed
    BY <1>2 DEF Entries, Current, Lost, TrackInv
  <2>5. TrackInv'
    BY <1>2, <2>1, <2>4 DEF TrackInv
  <2>6. IsFiniteSet(Files')
    BY <2>1, FS_AddElement
  <2>7. QED
    BY <1>2, <2>1, <2>2, <2>3, <2>5, <2>6
<1>3. QED
  BY <1>1, <1>2 DEF startNewSegment

(* Closing it.                                                             *)
LEMMA CloseSegment ==
    ASSUME DirectoryInv, pc # "down", pc \notin {"delete", "forget"}, cur,
           RecordSegment, highest' = highest, lost' = lost, pc' = "live"
    PROVE  /\ NumberInv' /\ TrackInv'
           /\ segments' \in Seq(Segment) /\ index' \in Nat
           /\ cur' \in BOOLEAN /\ flagNext' \in BOOLEAN
           /\ Files' = Files /\ ~cur'
<1> USE DEF DirectoryInv, MemoryInv
<1> DEFINE e == [idx |-> index, created |-> now, disc |-> flagNext,
                 dur |-> Duration]
<1>1. e \in Segment /\ e.idx = index
  BY MuxerAssumption DEF Segment, Duration
<1>2. /\ segments' = Append(segments, e)
      /\ ~cur' /\ index' = index + 1 /\ flagNext' = FALSE /\ Files' = Files
      /\ cur' \in BOOLEAN /\ flagNext' \in BOOLEAN
  BY DEF RecordSegment, Files
<1> HIDE DEF e
<1>3. /\ segments' \in Seq(Segment)
      /\ DOMAIN segments' = 1..(Len(segments) + 1)
      /\ \A k \in 1..Len(segments) : segments'[k] = segments[k]
      /\ segments'[Len(segments) + 1] = e
      /\ Entries(segments') = Entries(segments) \union {index}
  BY <1>1, <1>2, AppendEntries
<1>4. Len(segments) \in Nat /\ DOMAIN segments = 1..Len(segments)
      /\ \A k \in DOMAIN segments : segments[k].idx \in Nat
  BY SeqFacts
<1>5. NumberInv'
  BY <1>2 DEF NumberInv, lost
<1>6. \A k \in DOMAIN segments' : segments'[k].idx < index'
  BY <1>1, <1>2, <1>3, <1>4 DEF TrackInv
<1>7. \A j, k \in DOMAIN segments' : segments'[j].idx = segments'[k].idx => j = k
  BY <1>1, <1>2, <1>3, <1>4 DEF TrackInv
<1>8. Files' \subseteq Entries(segments)' \union Current' \union Lost
      /\ Current' \subseteq Files' /\ Entries(segments)' \subseteq Files'
  BY <1>2, <1>3 DEF TrackInv, Current, Entries
<1>9. Lost' = Lost /\ unseen' = unseen /\ untimed' = untimed
  BY DEF Lost, lost
<1>10. /\ index \notin Lost /\ Lost \intersect Entries(segments)' = {}
       /\ \A i \in untimed : i < index'
  <2>1. /\ \A i \in untimed : i \in Nat /\ i < index
        /\ index \notin unseen /\ Lost \intersect Entries(segments) = {}
    BY DEF TrackInv, Lost
  <2>2. index \notin Lost
    BY <2>1 DEF Lost
  <2>3. Entries(segments)' = Entries(segments) \union {index}
    BY <1>3 DEF Entries
  <2>4. \A i \in untimed : i < index'
    BY <1>2, <2>1
  <2>5. QED
    BY <2>1, <2>2, <2>3, <2>4
<1>11. TrackInv'
  <2>1. pc' = "live" /\ ~cur' /\ Lost \subseteq Files
    BY <1>2 DEF TrackInv
  <2>2. Lost' \subseteq Files'
    BY <1>2, <1>9, <2>1
  <2>3. Lost' \intersect Entries(segments)' = {} /\ \A i \in untimed' : i < index'
    BY <1>9, <1>10
  <2>4. Files' \subseteq Entries(segments)' \union Current' \union Lost'
    BY <1>8, <1>9
  <2>5. QED
    BY <1>6, <1>7, <1>8, <2>1, <2>2, <2>3, <2>4 DEF TrackInv
<1>12. segments' \in Seq(Segment)
  BY <1>3
<1>13. index' \in Nat
  BY <1>2
<1>14. QED
  BY <1>2, <1>5, <1>11, <1>12, <1>13
-----------------------------------------------------------------------------
LEMMA DirectoryInit == Init => DirectoryInv
<1> SUFFICES ASSUME Init PROVE DirectoryInv
  OBVIOUS
<1> USE DEF Init
<1>1. Files = {} /\ IsFiniteSet(Files)
  BY FS_EmptySet DEF Files
<1>2. segments \in Seq(Segment) /\ elapsed \in Int \union {NoPts}
  BY EmptySeq
<1>3. MemoryInv
  <2>1. index \in Nat /\ gap \in Nat /\ now \in Nat /\ highest \in Int
    OBVIOUS
  <2>2. cur \in BOOLEAN /\ flagNext \in BOOLEAN /\ pending \in BOOLEAN
    BY Zenon
  <2>3. Files \subseteq Nat /\ \A i \in Files : disk[i] \in Nat
    BY <1>1
  <2>4. QED
    BY <1>1, <1>2, <2>1, <2>2, <2>3 DEF MemoryInv
<1>4. PhaseInv /\ NumberInv /\ TrackInv
  BY <1>1 DEF PhaseInv, NumberInv, TrackInv, Lost
<1>5. QED
  BY <1>3, <1>4 DEF DirectoryInv

LEMMA OpenStep == DirectoryInv /\ open => DirectoryInv'
<1> SUFFICES ASSUME DirectoryInv, open PROVE DirectoryInv'
  OBVIOUS
<1> USE DEF DirectoryInv, MemoryInv
<1>1. PICK found, timed : Opened(found, timed)
  BY OpenFinds
<1>2. /\ disk' = disk /\ highest' = highest /\ cur' = FALSE /\ now' = now
      /\ gap' = gap /\ elapsed' = NoPts /\ flagNext' = FALSE
      /\ pending' \in BOOLEAN /\ pc = "down"
  BY DEF open, diskVars
<1>3. /\ Files' = Files /\ Current' = {}
      /\ Lost' = Files \ timed /\ Entries(segments)' = timed
  BY <1>1, <1>2 DEF Opened, Files, Current, Lost, Entries
<1>4. /\ index' \in Nat /\ \A i \in found : i < index'
      /\ pc' \in {"ready", "live"}
      /\ pc' = "live" => after' = "ready"
      /\ after' = after \/ after' = "ready"
  BY <1>1 DEF Opened
<1>5. highest \in unseen' \/ index' > highest
  <2>1. CASE highest \in found
    BY <1>4, <2>1
  <2>2. CASE highest \in Files \ found
    BY <1>1, <2>2 DEF Opened
  <2>3. CASE highest \notin Files
    <3>1. highest < 0
      BY <2>3 DEF NumberInv
    <3>2. QED
      BY <1>4, <3>1
  <2>4. QED
    BY <2>1, <2>2, <2>3
<1>6. MemoryInv'
  <2>1. segments' \in Seq(Segment)
    BY <1>1 DEF Opened
  <2>2. QED
    BY <1>2, <1>3, <1>4, <2>1
<1>7. PhaseInv'
  BY <1>4 DEF PhaseInv
<1>8. NumberInv'
  BY <1>2, <1>3, <1>5 DEF NumberInv
<1>9. TrackInv'
  <2>1. /\ \A k \in DOMAIN segments' : segments'[k].idx \in timed
        /\ \A j, k \in DOMAIN segments' :
               segments'[j].idx = segments'[k].idx => j = k
        /\ found \subseteq Files /\ timed \subseteq found /\ untimed' = found \ timed
    BY <1>1 DEF Opened
  <2>2. \A k \in DOMAIN segments' : segments'[k].idx < index'
    BY <1>4, <2>1
  <2>3. QED
    BY <1>2, <1>3, <1>4, <2>1, <2>2 DEF TrackInv
<1>10. QED
  BY <1>6, <1>7, <1>8, <1>9

LEMMA RotateStep ==
    ASSUME DirectoryInv, NEW d \in Nat,
           WriteFirst(d) \/ WriteRotates(d) \/ RotateOpens \/ WriteFits(d)
    PROVE  DirectoryInv'
<1> USE DEF DirectoryInv, MemoryInv
<1>1. CASE WriteFirst(d) \/ RotateOpens
  <2>1. /\ startNewSegment /\ ~cur /\ pc \in {"ready", "rotate"}
        /\ gap' \in Nat
        /\ UNCHANGED <<after, segments, index, flagNext, pending, now>>
    BY <1>1 DEF WriteFirst, RotateOpens, PhaseInv, envVars
  <2>2. /\ NumberInv' /\ TrackInv'
        /\ cur' \in BOOLEAN /\ elapsed' \in Int \union {NoPts}
        /\ Files' \subseteq Nat /\ IsFiniteSet(Files') /\ highest' \in Int
        /\ pc' = "setup" => cur'
        /\ pc' \in {"setup", "failed"}
    BY <2>1, OpenSegment
  <2>3. \A i \in Files' : disk'[i] \in Nat
    BY <2>1 DEF startNewSegment, Files
  <2>4. PhaseInv'
    BY <2>1, <2>2 DEF PhaseInv
  <2>5. MemoryInv'
    BY <2>1, <2>2, <2>3
  <2>6. QED
    BY <2>2, <2>4, <2>5
<1>2. CASE WriteRotates(d)
  <2>1. /\ RecordSegment /\ cur /\ pc = "ready" /\ pc' = "live" /\ after' = "rotate"
        /\ gap' = d
        /\ UNCHANGED <<elapsed, pending, now, highest, lost>>
    BY <1>2 DEF WriteRotates, PlaylistsThen, envVars, history
  <2>2. /\ NumberInv' /\ TrackInv'
        /\ segments' \in Seq(Segment) /\ index' \in Nat
        /\ cur' \in BOOLEAN /\ flagNext' \in BOOLEAN
        /\ Files' = Files /\ ~cur'
    BY <2>1, CloseSegment
  <2>3. \A i \in Files' : disk'[i] \in Nat
    BY <2>1, <2>2 DEF RecordSegment, Files
  <2>4. PhaseInv'
    BY <2>1, <2>2 DEF PhaseInv
  <2>5. MemoryInv'
    BY <2>1, <2>2, <2>3
  <2>6. QED
    BY <2>2, <2>4, <2>5
<1>3. CASE WriteFits(d)
  <2>1. /\ pc = "ready" /\ cur /\ pc' = "marker" /\ gap' = d
        /\ UNCHANGED <<after, disk, segments, cur, index, elapsed, flagNext,
                       pending, now, highest, lost>>
    BY <1>3 DEF WriteFits, diskVars, envVars, history
  <2>2. Files' = Files
    BY <2>1 DEF Files
  <2>3. NumberInv' /\ TrackInv'
    BY <2>1, <2>2, QuietStep, SameNumbersRefl
  <2>4. MemoryInv' /\ PhaseInv'
    BY <2>1, <2>2 DEF PhaseInv
  <2>5. QED
    BY <2>3, <2>4
<1>4. QED
  BY <1>1, <1>2, <1>3

(* The other steps of writePacket, the playlists and the worker's calls.   *)
LEMMA WriteStep ==
    ASSUME DirectoryInv,
           setupOutputStream \/ PendingMarker \/ WriteFrame \/ writeDiscontinuity
    PROVE  DirectoryInv'
<1> USE DEF DirectoryInv, MemoryInv
<1>1. CASE setupOutputStream
  <2>1. /\ pc = "setup" /\ pc' \in {"marker", "failed"}
        /\ UNCHANGED <<after, disk, segments, cur, index, elapsed, gap, flagNext,
                       pending, now, highest, lost>>
    BY <1>1 DEF setupOutputStream, diskVars, envVars, history
  <2>2. Files' = Files
    BY <2>1 DEF Files
  <2>3. NumberInv' /\ TrackInv'
    BY <2>1, <2>2, QuietStep, SameNumbersRefl
  <2>4. MemoryInv' /\ PhaseInv'
    BY <2>1, <2>2 DEF PhaseInv
  <2>5. QED
    BY <2>3, <2>4
<1>2. CASE PendingMarker \/ writeDiscontinuity
  <2>1. /\ pc \in {"marker", "ready"} /\ pc' \in {"live", "frame"}
        /\ pc' = "live" => after' \in {"frame", "ready"}
        /\ pc' = "frame" => cur /\ after' = after
        /\ after' = "frame" => cur \/ after = "frame"
        /\ after' \in {after, "frame", "ready"}
        /\ pending' \in BOOLEAN
        /\ UNCHANGED <<disk, cur, index, elapsed, gap, now, highest, lost>>
    BY <1>2 DEF PendingMarker, writeDiscontinuity, PlaylistsThen, PhaseInv,
                diskVars, envVars, history
  <2>2. pc' = "live" /\ after' = "frame" => cur
    BY <1>2 DEF PendingMarker, writeDiscontinuity, PlaylistsThen, PhaseInv
  <2>3. SameNumbers(segments, segments') /\ flagNext' \in BOOLEAN
    <3>1. CASE MarkDiscontinuity
      BY <3>1, MarkKeepsNumbers
    <3>2. CASE UNCHANGED <<segments, flagNext>>
      BY <3>2, SameNumbersRefl
    <3>3. QED
      BY <1>2, <3>1, <3>2 DEF PendingMarker, writeDiscontinuity
  <2>4. Files' = Files
    BY <2>1 DEF Files
  <2>5. NumberInv' /\ TrackInv'
    BY <2>1, <2>3, <2>4, QuietStep
  <2>6. MemoryInv'
    BY <2>1, <2>3, <2>4 DEF SameNumbers
  <2>7. PhaseInv'
    BY <2>1, <2>2 DEF PhaseInv
  <2>8. QED
    BY <2>5, <2>6, <2>7
<1>3. CASE WriteFrame
  <2>1. /\ pc = "frame" /\ cur /\ pc' \in {"cleanup", "ready", "failed"}
        /\ UNCHANGED <<after, segments, cur, index, gap, flagNext, pending, now,
                       highest, lost>>
    BY <1>3 DEF WriteFrame, PhaseInv, envVars, history
  <2>2. /\ elapsed' \in Int \union {NoPts}
        /\ Files' = Files
        /\ \A i \in Files : disk'[i] \in Nat
    BY <1>3 DEF WriteFrame, Files
  <2>3. NumberInv' /\ TrackInv'
    BY <2>1, <2>2, QuietStep, SameNumbersRefl
  <2>4. MemoryInv'
    BY <2>1, <2>2
  <2>5. PhaseInv'
    BY <2>1 DEF PhaseInv
  <2>6. QED
    BY <2>3, <2>4, <2>5
<1>4. QED
  BY <1>1, <1>2, <1>3

LEMMA PlaylistStep ==
    ASSUME DirectoryInv, updateLivePlaylist \/ updateArchivePlaylist \/ CloseFinal
    PROVE  DirectoryInv'
<1> USE DEF DirectoryInv, MemoryInv
<1>1. UNCHANGED <<disk, segments, cur, index, elapsed, gap, flagNext, pending,
                  now, highest, lost>>
  BY DEF updateLivePlaylist, updateArchivePlaylist, CloseFinal, segVars,
         diskVars, envVars, history
<1>2. Files' = Files
  BY <1>1 DEF Files
<1>3. /\ pc # "down" /\ pc \notin {"delete", "forget"}
      /\ pc' \in {"live", "archive", "down", "ready", "rotate", "frame", "final"}
      /\ PhaseInv'
  BY <1>1 DEF updateLivePlaylist, updateArchivePlaylist, CloseFinal,
              PlaylistsThen, PhaseInv
<1>4. NumberInv' /\ TrackInv'
  BY <1>1, <1>2, <1>3, QuietStep, SameNumbersRefl
<1>5. MemoryInv'
  BY <1>1, <1>2
<1>6. QED
  BY <1>3, <1>4, <1>5

LEMMA CleanupStep == DirectoryInv /\ cleanupOldSegments => DirectoryInv'
<1> SUFFICES ASSUME DirectoryInv, cleanupOldSegments PROVE DirectoryInv'
  OBVIOUS
<1> USE DEF DirectoryInv, MemoryInv
<1>1. CASE CleanupBegin
  <2>1. /\ pc = "cleanup" /\ cur /\ pc' \in {"ready", "delete"}
        /\ UNCHANGED <<after, disk, segments, cur, index, elapsed, gap, flagNext,
                       pending, now, highest, lost>>
        /\ sweep' \subseteq Entries(segments)
    BY <1>1 DEF CleanupBegin, Entries, PhaseInv, segVars, diskVars, envVars,
                history
  <2>2. /\ Files' = Files /\ Entries(segments)' = Entries(segments)
        /\ Current' = Current /\ Lost' = Lost
    BY <2>1 DEF Files, Current, Entries, Lost, lost
  <2>3. MemoryInv' /\ PhaseInv' /\ NumberInv'
    BY <2>1, <2>2 DEF PhaseInv, NumberInv, lost
  <2>4. TrackInv'
    BY <2>1, <2>2 DEF TrackInv, lost
  <2>5. QED
    BY <2>3, <2>4
<1>2. CASE CleanupDelete
  <2>1. PICK i \in sweep :
            /\ sweep' = sweep \ {i}
            /\ disk' = [j \in Files \ {i} |-> disk[j]] \/ disk' = disk
    BY <1>2 DEF CleanupDelete
  <2>2. /\ pc = "delete" /\ cur /\ pc' \in {"forget", "delete"}
        /\ UNCHANGED <<after, segments, cur, index, elapsed, gap, flagNext,
                       pending, now, highest, lost>>
    BY <1>2 DEF CleanupDelete, PhaseInv, segVars, envVars, history
  <2>3. /\ Files \ {i} \subseteq Files' /\ Files' \subseteq Files
        /\ \A j \in Files' : disk'[j] = disk[j]
    BY <2>1 DEF Files
  <2>4. i \in Entries(segments) /\ i # index /\ i \notin Lost
    BY <2>1, <2>2 DEF TrackInv, Entries
  <2>5. /\ Entries(segments)' = Entries(segments) /\ Current' = Current /\ Current = {index}
        /\ Lost' = Lost /\ unseen' = unseen /\ untimed' = untimed /\ unseen \subseteq Lost
    BY <2>2 DEF Entries, Current, Lost, lost
  <2>6. IsFiniteSet(Files')
    BY <2>3, FS_Subset
  <2>7. MemoryInv' /\ PhaseInv'
    BY <2>2, <2>3, <2>6 DEF PhaseInv
  <2>8. NumberInv'
    BY <2>2, <2>3, <2>4, <2>5 DEF NumberInv
  <2>9. TrackInv'
    BY <2>1, <2>2, <2>3, <2>4, <2>5 DEF TrackInv
  <2>10. QED
    BY <2>7, <2>8, <2>9
<1>3. ASSUME NEW k \in Gone, pc = "forget", pc' = pc, after' = after,
             segments' = Without(segments, k),
             UNCHANGED <<diskVars, cur, index, elapsed, gap, flagNext, pending,
                         sweepVars, envVars, history>>
      PROVE  DirectoryInv'
  <2>1. k \in DOMAIN segments /\ segments[k].idx \notin Files
    BY DEF Gone
  <2>2. Removed(segments, k, segments')
    BY <1>3, <2>1, RemoveEntries
  <2>3. UNCHANGED <<disk, cur, index, elapsed, gap, flagNext, pending, now, highest,
                    unseen, untimed>>
    BY <1>3 DEF diskVars, envVars, history, lost
  <2>4. Files' = Files /\ Current' = Current /\ Lost' = Lost
    BY <2>3 DEF Files, Current, Lost
  <2>5. MemoryInv' /\ PhaseInv' /\ NumberInv'
    BY <1>3, <2>2, <2>3, <2>4 DEF PhaseInv, NumberInv, Removed
  <2>6. /\ \A x \in Files : x \in Entries(segments) => x \in Entries(segments')
        /\ Entries(segments') \subseteq Entries(segments)
    BY <2>1, <2>2 DEF Entries, Removed
  <2>7. /\ \A j \in DOMAIN segments' : segments'[j].idx < index'
        /\ \A i, j \in DOMAIN segments' : segments'[i].idx = segments'[j].idx => i = j
    BY <1>3, <2>2, <2>3 DEF TrackInv, Removed
  <2>8. Entries(segments)' = Entries(segments')
    BY DEF Entries
  <2>9. Files' \subseteq Entries(segments)' \union Current' \union Lost'
    BY <1>3, <2>4, <2>6, <2>8 DEF TrackInv
  <2>10. Lost' \subseteq Files' /\ Lost' \intersect Entries(segments)' = {}
    BY <1>3, <2>4, <2>6, <2>8 DEF TrackInv
  <2>11. TrackInv'
    BY <1>3, <2>3, <2>4, <2>7, <2>9, <2>10 DEF TrackInv
  <2>12. QED
    BY <2>5, <2>11
<1>4. CASE CleanupForget /\ Gone = {}
  <2>1. /\ pc = "forget" /\ pc' = "live" /\ after' = "ready" 
        /\ UNCHANGED <<disk, segments, cur, index, elapsed, gap, flagNext,
                       pending, now, highest, lost>>
    BY <1>4 DEF CleanupForget, PlaylistsThen, diskVars, envVars, history
  <2>2. Entries(segments) \subseteq Files
    BY <1>4 DEF Gone, Entries
  <2>3. /\ Files' = Files /\ Entries(segments)' = Entries(segments)
        /\ Current' = Current /\ Lost' = Lost
    BY <2>1 DEF Files, Current, Entries, Lost, lost
  <2>4. MemoryInv' /\ PhaseInv' /\ NumberInv'
    BY <2>1, <2>3 DEF PhaseInv, NumberInv, lost
  <2>5. TrackInv'
    BY <2>1, <2>2, <2>3 DEF TrackInv, lost
  <2>6. QED
    BY <2>4, <2>5
<1>5. CleanupForget => Gone = {} \/ \E k \in Gone :
          /\ pc = "forget" /\ pc' = pc /\ after' = after
          /\ segments' = Without(segments, k)
          /\ UNCHANGED <<diskVars, cur, index, elapsed, gap, flagNext, pending,
                         sweepVars, envVars, history>>
  BY DEF CleanupForget
<1>6. QED
  BY <1>1, <1>2, <1>3, <1>4, <1>5 DEF cleanupOldSegments

LEMMA CloseStep == DirectoryInv /\ close => DirectoryInv'
<1> SUFFICES ASSUME DirectoryInv, close PROVE DirectoryInv'
  OBVIOUS
<1> USE DEF DirectoryInv, MemoryInv
<1>1. pc \in {"ready", "failed"} /\ UNCHANGED <<elapsed, gap, pending, now, highest, lost>>
  BY DEF close, envVars, history
<1>2. CASE cur
  <2>1. RecordSegment /\ pc' = "live" /\ after' = "final"
    BY <1>2 DEF close, PlaylistsThen
  <2>2. /\ NumberInv' /\ TrackInv'
        /\ segments' \in Seq(Segment) /\ index' \in Nat
        /\ cur' \in BOOLEAN /\ flagNext' \in BOOLEAN
        /\ Files' = Files
    BY <1>1, <1>2, <2>1, CloseSegment
  <2>3. \A i \in Files' : disk'[i] \in Nat
    BY <2>1, <2>2 DEF RecordSegment, Files
  <2>4. PhaseInv'
    BY <2>1 DEF PhaseInv
  <2>5. MemoryInv'
    BY <1>1, <2>2, <2>3
  <2>6. QED
    BY <2>2, <2>4, <2>5
<1>3. CASE ~cur
  <2>1. /\ pc' = "final"
        /\ UNCHANGED <<after, segments, disk, flagNext, cur, index>>
    BY <1>3 DEF close
  <2>2. Files' = Files
    BY <2>1 DEF Files
  <2>3. NumberInv' /\ TrackInv'
    BY <1>1, <2>1, <2>2, QuietStep, SameNumbersRefl
  <2>4. MemoryInv' /\ PhaseInv'
    BY <1>1, <2>1, <2>2 DEF PhaseInv
  <2>5. QED
    BY <2>3, <2>4
<1>4. QED
  BY <1>2, <1>3

LEMMA EnvironmentStep ==
    DirectoryInv /\ (Crash \/ Tick \/ UNCHANGED vars) => DirectoryInv'
<1> SUFFICES ASSUME DirectoryInv, Crash \/ Tick \/ UNCHANGED vars
             PROVE  DirectoryInv'
  OBVIOUS
<1> USE DEF DirectoryInv, MemoryInv
<1>1. CASE Crash
  <2>1. /\ pc' = "down" /\ after' = "down" /\ segments' = <<>> /\ cur' = FALSE
        /\ index' = 0 /\ elapsed' = NoPts /\ gap' = 0 /\ flagNext' = FALSE
        /\ pending' = FALSE
        /\ UNCHANGED <<disk, now, highest, lost>>
    BY <1>1 DEF Crash, diskVars, envVars, history
  <2>2. Files' = Files /\ segments' \in Seq(Segment)
    BY <2>1, EmptySeq DEF Files
  <2>3. MemoryInv'
    BY <2>1, <2>2
  <2>4. PhaseInv' /\ NumberInv' /\ TrackInv'
    BY <2>1, <2>2 DEF PhaseInv, NumberInv, TrackInv, Lost, lost
  <2>5. QED
    BY <2>3, <2>4
<1>2. CASE Tick \/ UNCHANGED vars
  <2>1. /\ UNCHANGED <<pc, after, disk, segments, cur, index, elapsed, gap,
                       flagNext, pending, sweep, highest, lost>>
        /\ now' \in Nat
    BY <1>2 DEF Tick, vars, diskVars, segVars, sweepVars, envVars, history
  <2>2. /\ Files' = Files /\ Entries(segments)' = Entries(segments)
        /\ Current' = Current /\ Lost' = Lost
    BY <2>1 DEF Files, Current, Entries, Lost, lost
  <2>3. MemoryInv'
    BY <2>1, <2>2
  <2>4. PhaseInv' /\ NumberInv'
    BY <2>1, <2>2 DEF PhaseInv, NumberInv, lost
  <2>5. TrackInv'
    BY <2>1, <2>2 DEF TrackInv, lost
  <2>6. QED
    BY <2>3, <2>4, <2>5
<1>3. QED
  BY <1>1, <1>2

(* DirectoryInv holds throughout.                                          *)
THEOREM DirectoryHolds == Spec => []DirectoryInv
<1>1. DirectoryInv /\ [Next]_vars => DirectoryInv'
  <2> SUFFICES ASSUME DirectoryInv, [Next]_vars PROVE DirectoryInv'
    OBVIOUS
  <2>1. CASE writePacket
    <3>1. ASSUME NEW d \in Gaps, WriteFirst(d) \/ WriteRotates(d) \/ WriteFits(d)
          PROVE  DirectoryInv'
      <4>1. d \in Nat
        BY MuxerAssumption
      <4>2. QED
        BY <3>1, <4>1, RotateStep
    <3>2. CASE RotateOpens
      <4>1. 0 \in Nat
        OBVIOUS
      <4>2. QED
        BY <3>2, <4>1, RotateStep
    <3>3. QED
      BY <2>1, <3>1, <3>2, WriteStep DEF writePacket
  <2>2. QED
    BY <2>1, OpenStep, WriteStep, CleanupStep, PlaylistStep, CloseStep,
       EnvironmentStep DEF Next
<1>2. QED
  BY DirectoryInit, <1>1, PTL DEF Spec
-----------------------------------------------------------------------------
(* TracksDisk: between two cleanups segments_ and the segment being        *)
(* written are exactly the files on disk, but for those that open() failed *)
(* to read, which stay; through rotations, failed calls, crashes and       *)
(* recoveries of any number of runs.                                       *)
THEOREM DirectoryIsTracked == Spec => []TracksDisk
<1>1. DirectoryInv => TracksDisk
  <2> SUFFICES ASSUME DirectoryInv, pc \notin {"down", "delete", "forget"}
               PROVE  /\ Files = Entries(segments) \union Current \union Lost
                      /\ Lost \intersect (Entries(segments) \union Current) = {}
                      /\ \A j, k \in DOMAIN segments :
                             segments[j].idx = segments[k].idx => j = k
                      /\ cur => index \notin Entries(segments)
    BY DEF TracksDisk
  <2>1. Files = Entries(segments) \union Current \union Lost
    BY DEF DirectoryInv, TrackInv
  <2>2. index \notin Entries(segments)
    BY SeqFacts DEF DirectoryInv, TrackInv, MemoryInv, Entries
  <2>3. cur => index \notin Lost
    BY DEF DirectoryInv, TrackInv, MemoryInv, Lost
  <2>4. Lost \intersect (Entries(segments) \union Current) = {}
    BY <2>3 DEF DirectoryInv, TrackInv, Current
  <2>5. QED
    BY <2>1, <2>2, <2>4 DEF DirectoryInv, TrackInv
<1>2. QED
  BY <1>1, DirectoryHolds, PTL

(* The only step that opens a segment, and the number it uses.             *)
LEMMA OpensAbove ==
    ASSUME DirectoryInv, Next, ~cur, cur'
    PROVE  index' > highest \/ highest \in unseen
<1>1. (\E d \in Gaps : WriteFirst(d)) \/ RotateOpens
  BY DEF Next, writePacket, cleanupOldSegments, open, WriteRotates, WriteFits,
         setupOutputStream, PendingMarker, WriteFrame, writeDiscontinuity,
         CleanupBegin, CleanupDelete, CleanupForget, updateLivePlaylist,
         updateArchivePlaylist, close, CloseFinal, Crash, Tick, RecordSegment,
         segVars
<1>2. pc # "down" /\ index' = index
  BY <1>1 DEF WriteFirst, RotateOpens
<1>3. QED
  BY <1>2 DEF DirectoryInv, NumberInv

(* NumbersNeverReused: every segment file is opened under a number above   *)
(* all numbers ever used in that directory, by this run or an earlier one, *)
(* unless the scan in open() failed before it came to the highest of them; *)
(* and from the moment this run has reached that number it is so again.    *)
THEOREM NumbersAreFresh == Spec => NumbersNeverReused
<1>1. DirectoryInv /\ [Next]_vars
      => [~cur /\ cur' => index' > highest \/ highest \in unseen]_vars
  BY OpensAbove
<1>2. QED
  BY <1>1, DirectoryHolds, PTL DEF Spec, NumbersNeverReused

(* What open() found and could read, as far as it is an instance in which  *)
(* the directory, or every file's time, can be read.                       *)
ScanInv ==
    /\ "scan" \notin CanFail => unseen = {}
    /\ "stat" \notin CanFail => untimed = {}

(* ScanInv holds throughout.                                               *)
THEOREM ScansHold == Spec => []ScanInv
<1>1. Init => ScanInv
  BY DEF Init, ScanInv
<1>2. DirectoryInv /\ ScanInv /\ [Next]_vars => ScanInv'
  <2> SUFFICES ASSUME DirectoryInv, ScanInv, [Next]_vars PROVE ScanInv'
    OBVIOUS
  <2>1. CASE open
    <3>1. PICK found, timed : Opened(found, timed)
      BY <2>1, OpenFinds DEF DirectoryInv
    <3>2. QED
      BY <3>1 DEF Opened, ScanInv
  <2>2. CASE (\E d \in Gaps : WriteFirst(d)) \/ RotateOpens
    BY <2>2 DEF WriteFirst, RotateOpens, startNewSegment, history, lost, ScanInv
  <2>3. CASE UNCHANGED lost
    BY <2>3 DEF lost, ScanInv
  <2>4. QED
    BY <2>1, <2>2, <2>3
    DEF Next, vars, writePacket, cleanupOldSegments, WriteRotates, WriteFits,
        setupOutputStream, PendingMarker, WriteFrame, writeDiscontinuity,
        CleanupBegin, CleanupDelete, CleanupForget, updateLivePlaylist,
        updateArchivePlaylist, close, CloseFinal, Crash, Tick, history
<1>3. QED
  BY <1>1, <1>2, DirectoryHolds, PTL DEF Spec

(* NumberingContinues, as the comment in open() has it: where the scan     *)
(* cannot fail no number is ever used again, though the time of any file   *)
(* may be unreadable and any other call may fail.                          *)
THEOREM NumberingAlwaysContinues ==
    ASSUME "scan" \notin CanFail
    PROVE  Spec => NumberingContinues
<1>1. DirectoryInv /\ ScanInv /\ [Next]_vars
      => [~cur /\ cur' => index' > highest]_vars
  BY OpensAbove DEF ScanInv
<1>2. QED
  BY <1>1, DirectoryHolds, ScansHold, PTL DEF Spec, NumberingContinues
-----------------------------------------------------------------------------
(* The refinement of HlsArchive.  A step that creates a segment is Record, *)
(* one that rewrites the archive playlist is Publish, one that deletes a   *)
(* file is Expire, open() is Reopen, and every other step leaves the       *)
(* abstract state alone.                                                   *)
listed == Entries(archive.entries)

(* What is known of the directory, and that the segment being written is   *)
(* the newest of it.                                                       *)
LEMMA KnownFiles ==
    ASSUME DirectoryInv, pc # "down"
    PROVE  /\ Promise!Known \subseteq Entries(segments) \union Current
           /\ Current \subseteq Promise!Known
           /\ \A i \in Entries(segments) : i < index
           /\ cur => Promise!Newest = {index}
<1>1. \A i \in Entries(segments) : i < index
  BY DEF DirectoryInv, TrackInv, Entries
<1>2. Promise!Known \subseteq Entries(segments) \union Current
  BY DEF DirectoryInv, TrackInv, Promise!Known
<1>3. Current \subseteq Promise!Known
  <2>1. cur => index \notin Lost
    BY DEF DirectoryInv, TrackInv, MemoryInv, Lost
  <2>2. QED
    BY <2>1 DEF DirectoryInv, TrackInv, Promise!Known, Current
<1>4. ASSUME cur PROVE Promise!Newest = {index}
  <2>1. index \in Promise!Known /\ index \in Nat /\ Promise!Known \subseteq Nat
    BY <1>3, <1>4 DEF Current, DirectoryInv, MemoryInv, Promise!Known
  <2>2. \A i \in Promise!Known : i <= index
    BY <1>1, <1>2, <2>1 DEF Current
  <2>3. index \in Promise!Newest
    BY <2>1, <2>2 DEF Promise!Newest
  <2>4. \A i \in Promise!Newest : i \in Nat /\ i <= index /\ index <= i
    BY <2>1, <2>2 DEF Promise!Newest
  <2>5. \A i \in Promise!Newest : i = index
    BY <2>1, <2>4
  <2>6. QED
    BY <2>3, <2>5
<1>5. QED
  BY <1>1, <1>2, <1>3, <1>4

LEMMA RecordsOrNot ==
    ASSUME DirectoryInv, pc # "down", ~cur, startNewSegment,
           index' = index, UNCHANGED archive
    PROVE  Promise!Record \/ UNCHANGED <<Files, listed, highest, Lost>>
<1>1. listed' = listed
  BY DEF listed, Entries
<1>2. CASE UNCHANGED <<disk, cur, elapsed, history>>
  BY <1>1, <1>2 DEF Files, history, lost, Lost
<1>3. CASE /\ disk' = [i \in Files \union {index} |-> IF i = index THEN now ELSE disk[i]]
           /\ highest' = IF index > highest THEN index ELSE highest
           /\ unseen' = unseen \ {index} /\ untimed' = untimed
  <2>1. Files' = Files \union {index}
    BY <1>3 DEF Files
  <2>2. \A i \in Promise!Known : i < index
    BY KnownFiles DEF Current
  <2>3. index > highest \/ highest \in Lost
    BY DEF DirectoryInv, NumberInv, Lost
  <2>4. index \notin untimed
    BY DEF DirectoryInv, TrackInv, MemoryInv
  <2>5. Lost' = Lost \ {index}
    BY <1>3, <2>4 DEF Lost
  <2>6. QED
    BY <1>1, <1>3, <2>1, <2>2, <2>3, <2>5 DEF Promise!Record, listed
<1>4. QED
  BY <1>2, <1>3 DEF startNewSegment

LEMMA PublishesOrNot ==
    ASSUME DirectoryInv, "short" \notin CanFail, updateArchivePlaylist
    PROVE  Promise!Publish \/ UNCHANGED <<Files, listed, highest, Lost>>
<1>1. pc = "archive" /\ UNCHANGED <<disk, highest, unseen, untimed>>
  BY DEF updateArchivePlaylist, history, lost
<1>2. Files' = Files /\ Lost' = Lost
  BY <1>1 DEF Files, Lost
<1>3. archive' = ArchiveContent \/ archive' = archive
  BY DEF updateArchivePlaylist, Writes
<1>4. CASE archive' = archive
  BY <1>1, <1>2, <1>4 DEF listed, Entries
<1>5. CASE archive' = ArchiveContent
  <2>1. listed' = Entries(segments)
    BY <1>5 DEF ArchiveContent, listed, Entries
  <2>2. Entries(segments) \subseteq Promise!Known
    BY <1>1 DEF DirectoryInv, TrackInv, Promise!Known
  <2>3. Entries(segments) \in {Promise!Known, Promise!Known \ Promise!Newest}
    <3>1. CASE cur
      <4>1. Promise!Newest = {index} /\ index \notin Entries(segments)
        BY <1>1, <3>1, KnownFiles DEF DirectoryInv, MemoryInv
      <4>2. Promise!Known \subseteq Entries(segments) \union {index}
        BY <1>1, <3>1, KnownFiles DEF Current
      <4>3. QED
        BY <2>2, <4>1, <4>2
    <3>2. CASE ~cur
      BY <1>1, <2>2, <3>2, KnownFiles DEF Current
    <3>3. QED
      BY <3>1, <3>2
  <2>4. QED
    BY <1>1, <1>2, <2>1, <2>3 DEF Promise!Publish, listed
<1>6. QED
  BY <1>3, <1>4, <1>5

LEMMA ExpiresOrNot ==
    ASSUME DirectoryInv, CleanupDelete
    PROVE  Promise!Expire \/ UNCHANGED <<Files, listed, highest, Lost>>
<1>1. pc = "delete" /\ UNCHANGED <<archive, highest, unseen, untimed>>
  BY DEF CleanupDelete, history, lost
<1>2. listed' = listed /\ Lost' = Lost
  BY <1>1 DEF listed, Entries, Lost
<1>3. PICK i \in sweep : disk' = [j \in Files \ {i} |-> disk[j]] \/ disk' = disk
  BY DEF CleanupDelete
<1>4. CASE disk' = disk
  BY <1>1, <1>2, <1>4 DEF Files
<1>5. CASE disk' = [j \in Files \ {i} |-> disk[j]]
  <2>1. Files' = Files \ {i}
    BY <1>5 DEF Files
  <2>2. i \in Entries(segments) /\ i \notin Lost
    BY <1>1, <1>3 DEF DirectoryInv, TrackInv
  <2>3. Lost \subseteq Files'
    BY <2>1, <2>2 DEF DirectoryInv, TrackInv
  <2>4. Promise!Newest = {index} /\ index \in Files /\ i # index
    BY <1>1, <2>2, KnownFiles
    DEF DirectoryInv, PhaseInv, TrackInv, MemoryInv, Current
  <2>5. QED
    BY <1>1, <1>2, <2>1, <2>3, <2>4 DEF Promise!Expire, listed
<1>6. QED
  BY <1>3, <1>4, <1>5

LEMMA OpenReopens ==
    ASSUME DirectoryInv, open
    PROVE  Promise!Reopen
<1>1. PICK found, timed : Opened(found, timed)
  BY OpenFinds DEF DirectoryInv
<1>2. UNCHANGED <<disk, archive, highest>>
  BY DEF open, diskVars
<1>3. Lost' \subseteq Files
  BY <1>1 DEF Opened, Lost
<1>4. QED
  BY <1>2, <1>3 DEF Promise!Reopen, Files, Entries

(* No other step changes what the directory's readers see.                 *)
LEMMA OthersAreInvisible ==
    ASSUME (\E d \in Gaps : WriteRotates(d) \/ WriteFits(d)) \/ setupOutputStream
           \/ PendingMarker \/ WriteFrame \/ writeDiscontinuity \/ CleanupBegin
           \/ CleanupForget \/ updateLivePlaylist \/ close \/ CloseFinal
           \/ Crash \/ Tick \/ UNCHANGED vars
    PROVE  UNCHANGED <<Files, listed, highest, Lost>>
<1>1. Files' = Files
  BY DEF WriteRotates, WriteFits, setupOutputStream, PendingMarker, WriteFrame,
         writeDiscontinuity, CleanupBegin, CleanupForget, updateLivePlaylist, close,
         CloseFinal, Crash, Tick, vars, RecordSegment, diskVars, Files
<1>2. UNCHANGED <<archive, highest, unseen, untimed>>
  BY DEF WriteRotates, WriteFits, setupOutputStream, PendingMarker, WriteFrame,
         writeDiscontinuity, CleanupBegin, CleanupForget, updateLivePlaylist, close,
         CloseFinal, Crash, Tick, vars, diskVars, history, lost
<1>3. QED
  BY <1>1, <1>2 DEF listed, Entries, Lost

(* KeepsArchive: as long as no playlist is cut short (NoPartialPlaylist    *)
(* shows what happens otherwise), the directory is an HlsArchive, whatever *)
(* else fails, open()'s reading of the directory included.                 *)
THEOREM MuxerKeepsArchive ==
    ASSUME "short" \notin CanFail
    PROVE  Spec => KeepsArchive
<1>1. Init => Promise!Init
  BY DEF Init, Promise!Init, Files, NoPlaylist, Entries, Lost
<1>2. DirectoryInv /\ [Next]_vars => [Promise!Next]_<<Files, listed, highest, Lost>>
  <2> SUFFICES ASSUME DirectoryInv, [Next]_vars
               PROVE  [Promise!Next]_<<Files, listed, highest, Lost>>
    OBVIOUS
  <2>1. ASSUME NEW d \in Gaps, WriteFirst(d)
        PROVE  Promise!Record \/ UNCHANGED <<Files, listed, highest, Lost>>
    BY <2>1, RecordsOrNot DEF WriteFirst
  <2>2. CASE RotateOpens
    <3>1. ~cur
      BY <2>2 DEF RotateOpens, DirectoryInv, PhaseInv
    <3>2. Promise!Record \/ UNCHANGED <<Files, listed, highest, Lost>>
      BY <2>2, <3>1, RecordsOrNot DEF RotateOpens
    <3>3. QED
      BY <3>2 DEF Promise!Next
  <2>3. QED
    BY <2>1, <2>2, PublishesOrNot, ExpiresOrNot, OpenReopens, OthersAreInvisible
    DEF Next, writePacket, cleanupOldSegments, Promise!Next
<1>3. [][Promise!Next]_<<Files, listed, highest, Lost>>
      => [][Promise!Next]_(Promise!archiveVars)
  BY DEF listed, Promise!archiveVars
<1>4. QED
  BY <1>1, <1>2, <1>3, DirectoryHolds, PTL DEF Spec, KeepsArchive, Promise!Spec
-----------------------------------------------------------------------------
(* Retention.  Within one run, or if file_clock and the system clock had   *)
(* one epoch, createdAt is the modification time of the file, and the int  *)
(* that holds an age never overflows.                                      *)
OneEpoch == (EpochShift = 0 \/ MaxRuns = 1) /\ MaxTime < IntHalf

Dated(S) == \A k \in DOMAIN S :
    S[k].idx \in Files => S[k].created = disk[S[k].idx]

AgeInv ==
    /\ now <= MaxTime /\ runs \in Nat
    /\ \A i \in Files : disk[i] <= now
    /\ runs = 0 => Files = {} /\ pc = "down"
    /\ pc # "down" => Dated(segments)
    /\ pc = "delete" => \A i \in sweep : i \in Files => now - disk[i] > Retention

(* What TooOld compares is the age of the file.                             *)
LEMMA SmallMod ==
    ASSUME NEW a \in Nat, NEW b \in Nat \ {0}, a < b
    PROVE  a % b = a
BY Z3

LEMMA AgeIsExact ==
    ASSUME OneEpoch, DirectoryInv, AgeInv, NEW t \in Nat, t <= now
    PROVE  ToInt(now - t) = now - t
<1>1. IntHalf \in Nat \ {0} /\ now \in Nat /\ MaxTime \in Nat /\ now < IntHalf
  BY MuxerAssumption DEF OneEpoch, AgeInv, DirectoryInv, MemoryInv
<1>2. /\ now - t + IntHalf \in Nat
      /\ 2 * IntHalf \in Nat \ {0}
      /\ now - t + IntHalf < 2 * IntHalf
  BY <1>1
<1>3. (now - t + IntHalf) % (2 * IntHalf) = now - t + IntHalf
  BY <1>2, SmallMod
<1>4. QED
  BY <1>1, <1>3 DEF ToInt

(* Steps that neither touch a file nor add an entry.                       *)
LEMMA AgeQuiet ==
    ASSUME AgeInv, pc # "down", disk' = disk, runs' = runs, now' = now,
           Dated(segments) => Dated(segments)', pc' # "delete"
    PROVE  AgeInv'
BY DEF AgeInv, Files

(* Steps that give the segment being written the time of now.              *)
LEMMA AgeTouch ==
    ASSUME DirectoryInv, AgeInv, pc # "down", pc' \notin {"down", "delete"},
           runs' = runs, now' = now, segments' = segments,
           Files' = Files \union {index},
           \A i \in Files' : disk'[i] = IF i = index THEN now ELSE disk[i]
    PROVE  AgeInv'
<1>1. now \in Nat /\ runs # 0
  BY DEF DirectoryInv, MemoryInv, AgeInv
<1>2. \A k \in DOMAIN segments : segments[k].idx # index
  BY SeqFacts DEF DirectoryInv, TrackInv, MemoryInv
<1>3. Dated(segments)'
  BY <1>2 DEF Dated, AgeInv
<1>4. \A i \in Files' : disk'[i] <= now'
  BY <1>1 DEF AgeInv
<1>5. QED
  BY <1>1, <1>3, <1>4 DEF AgeInv

LEMMA AgeClose ==
    ASSUME DirectoryInv, AgeInv, cur, pc # "down", pc' = "live", RecordSegment,
           runs' = runs, now' = now
    PROVE  AgeInv'
<1> DEFINE e == [idx |-> index, created |-> now, disc |-> flagNext,
                 dur |-> Duration]
<1>1. e \in Segment /\ e.idx = index /\ e.created = now
  BY MuxerAssumption DEF Segment, Duration, DirectoryInv, MemoryInv
<1>2. segments' = Append(segments, e) /\ disk' = [disk EXCEPT ![index] = now]
  BY DEF RecordSegment
<1> HIDE DEF e
<1>3. /\ DOMAIN segments' = 1..(Len(segments) + 1)
      /\ \A k \in 1..Len(segments) : segments'[k] = segments[k]
      /\ segments'[Len(segments) + 1] = e
  BY <1>1, <1>2, AppendEntries DEF DirectoryInv, MemoryInv
<1>4. Len(segments) \in Nat /\ DOMAIN segments = 1..Len(segments)
      /\ \A k \in DOMAIN segments : segments[k].idx # index
  BY SeqFacts DEF DirectoryInv, TrackInv, MemoryInv
<1>5. index \in Files /\ Files' = Files
      /\ \A i \in Files : disk'[i] = IF i = index THEN now ELSE disk[i]
  BY <1>2 DEF DirectoryInv, TrackInv, Current, Files
<1>6. Dated(segments)'
  <2> SUFFICES ASSUME NEW k \in DOMAIN segments', segments'[k].idx \in Files
               PROVE  segments'[k].created = disk'[segments'[k].idx]
    BY <1>5 DEF Dated
  <2>1. CASE k = Len(segments) + 1
    BY <1>1, <1>3, <1>5, <2>1
  <2>2. CASE k \in 1..Len(segments)
    BY <1>3, <1>4, <1>5, <2>2 DEF AgeInv, Dated
  <2>3. QED
    BY <1>3, <1>4, <2>1, <2>2
<1>7. now \in Nat /\ runs # 0
  BY DEF DirectoryInv, MemoryInv, AgeInv
<1>8. QED
  BY <1>5, <1>6, <1>7 DEF AgeInv

LEMMA AgeOpen ==
    ASSUME OneEpoch, DirectoryInv, AgeInv, open
    PROVE  AgeInv'
<1>1. PICK found, timed : Opened(found, timed)
  BY OpenFinds DEF DirectoryInv
<1>2. \A k \in DOMAIN segments' :
          /\ segments'[k].idx \in Files
          /\ segments'[k].created = disk[segments'[k].idx] - EpochShift
  BY <1>1 DEF Opened
<1>3. /\ disk' = disk /\ now' = now /\ runs' = runs + 1 /\ runs < MaxRuns
      /\ pc' # "delete"
  BY <1>1 DEF open, diskVars, Opened
<1>4. Files' = Files
  BY <1>3 DEF Files
<1>5. Dated(segments)'
  <2>1. CASE EpochShift = 0
    <3>1. \A i \in Files : disk[i] - EpochShift = disk[i]
      BY <2>1 DEF DirectoryInv, MemoryInv
    <3>2. QED
      BY <1>2, <1>3, <1>4, <3>1 DEF Dated
  <2>2. CASE MaxRuns = 1
    <3>1. Files = {}
      BY <1>3, <2>2 DEF AgeInv
    <3>2. QED
      BY <1>4, <3>1 DEF Dated
  <2>3. QED
    BY <2>1, <2>2 DEF OneEpoch
<1>6. QED
  BY <1>3, <1>4, <1>5 DEF AgeInv

LEMMA AgeCleanup ==
    ASSUME OneEpoch, DirectoryInv, AgeInv, cleanupOldSegments
    PROVE  AgeInv'
<1>1. CASE CleanupBegin
  <2>1. /\ pc = "cleanup" /\ pc' # "down"
        /\ UNCHANGED <<disk, segments, now, runs>>
        /\ sweep' = {segments[k].idx : k \in {j \in DOMAIN segments : TooOld(segments[j])}}
    BY <1>1 DEF CleanupBegin, diskVars, segVars, envVars
  <2>2. Files' = Files
    BY <2>1 DEF Files
  <2>3. ASSUME NEW i \in sweep', i \in Files PROVE now - disk[i] > Retention
    <3>1. PICK k \in DOMAIN segments : i = segments[k].idx /\ TooOld(segments[k])
      BY <2>1, <2>3
    <3>2. segments[k].created = disk[i]
      BY <2>1, <2>3, <3>1 DEF AgeInv, Dated
    <3>3. disk[i] \in Nat /\ disk[i] <= now
      BY <2>3 DEF AgeInv, DirectoryInv, MemoryInv
    <3>4. ToInt(now - disk[i]) = now - disk[i]
      BY <3>3, AgeIsExact
    <3>5. QED
      BY <3>1, <3>2, <3>4 DEF TooOld
  <2>4. Dated(segments)'
    BY <2>1, <2>2 DEF AgeInv, Dated
  <2>5. QED
    BY <2>1, <2>2, <2>3, <2>4 DEF AgeInv
<1>2. CASE CleanupDelete
  <2>1. /\ pc = "delete" /\ pc' # "down"
        /\ UNCHANGED <<segments, now, runs>>
        /\ sweep' \subseteq sweep
    BY <1>2 DEF CleanupDelete, segVars, envVars
  <2>2. Files' \subseteq Files /\ \A j \in Files' : disk'[j] = disk[j]
    BY <1>2 DEF CleanupDelete, Files
  <2>3. Dated(segments)'
    BY <2>1, <2>2 DEF AgeInv, Dated
  <2>4. QED
    BY <2>1, <2>2, <2>3 DEF AgeInv
<1>3. CASE CleanupForget
  <2>1. pc = "forget" /\ UNCHANGED <<disk, now, runs>> /\ pc' # "delete"
    BY <1>3 DEF CleanupForget, diskVars, envVars, PlaylistsThen
  <2>2. Files' = Files
    BY <2>1 DEF Files
  <2>3. Dated(segments) => Dated(segments)'
    <3>1. CASE UNCHANGED segments
      BY <2>1, <2>2, <3>1 DEF Dated
    <3>2. ASSUME NEW k \in DOMAIN segments, segments' = Without(segments, k)
          PROVE  Dated(segments) => Dated(segments)'
      <4>1. Removed(segments, k, segments')
        BY <3>2, RemoveEntries DEF DirectoryInv, MemoryInv
      <4>2. QED
        BY <2>1, <2>2, <4>1 DEF Dated, Removed
    <3>3. QED
      BY <1>3, <3>1, <3>2 DEF CleanupForget, Gone
  <2>4. QED
    BY <2>1, <2>3, AgeQuiet
<1>4. QED
  BY <1>1, <1>2, <1>3 DEF cleanupOldSegments

LEMMA AgeStep ==
    ASSUME OneEpoch, DirectoryInv, DirectoryInv', AgeInv, [Next]_vars
    PROVE  AgeInv'
<1>1. ASSUME NEW d \in Gaps, WriteFirst(d) \/ WriteRotates(d) \/ WriteFits(d)
      PROVE  AgeInv'
  <2>1. CASE WriteFirst(d)
    <3>1. /\ pc = "ready" /\ startNewSegment /\ UNCHANGED <<segments, now, runs>>
      BY <2>1 DEF WriteFirst, envVars
    <3>2. QED
      BY <3>1, AgeTouch, AgeQuiet DEF startNewSegment, Files, Dated
  <2>2. CASE WriteRotates(d)
    BY <2>2, AgeClose DEF WriteRotates, PlaylistsThen, envVars
  <2>3. CASE WriteFits(d)
    BY <2>3, AgeQuiet DEF WriteFits, diskVars, envVars, Dated, Files
  <2>4. QED
    BY <1>1, <2>1, <2>2, <2>3
<1>2. CASE RotateOpens
  <2>1. /\ pc = "rotate" /\ startNewSegment /\ UNCHANGED <<segments, now, runs>>
    BY <1>2 DEF RotateOpens, envVars
  <2>2. QED
    BY <2>1, AgeTouch, AgeQuiet DEF startNewSegment, Files, Dated
<1>3. CASE setupOutputStream \/ CloseFinal \/ updateLivePlaylist
  BY <1>3, AgeQuiet DEF setupOutputStream, CloseFinal, updateLivePlaylist,
         PlaylistsThen, segVars, diskVars, envVars, Dated, Files
<1>4. CASE updateArchivePlaylist
  BY <1>4, AgeQuiet DEF updateArchivePlaylist, segVars, envVars, Dated, Files,
         DirectoryInv, PhaseInv
<1>5. CASE PendingMarker \/ writeDiscontinuity
  <2>1. SameNumbers(segments, segments')
    <3>1. CASE MarkDiscontinuity
      BY <3>1, MarkKeepsNumbers DEF DirectoryInv, MemoryInv
    <3>2. CASE UNCHANGED <<segments, flagNext>>
      BY <3>2, SameNumbersRefl DEF DirectoryInv, MemoryInv
    <3>3. QED
      BY <1>5, <3>1, <3>2 DEF PendingMarker, writeDiscontinuity
  <2>2. /\ pc \in {"marker", "ready"} /\ pc' \in {"live", "frame"}
        /\ UNCHANGED <<disk, now, runs>>
    BY <1>5 DEF PendingMarker, writeDiscontinuity, PlaylistsThen, diskVars, envVars
  <2>3. Dated(segments) => Dated(segments)'
    BY <2>1, <2>2 DEF Dated, SameNumbers, Files
  <2>4. QED
    BY <2>2, <2>3, AgeQuiet
<1>6. CASE WriteFrame
  <2>1. /\ pc = "frame" /\ pc' \in {"cleanup", "ready", "failed"}
        /\ UNCHANGED <<segments, now, runs>>
        /\ index \in Files
    BY <1>6 DEF WriteFrame, envVars, DirectoryInv, PhaseInv, TrackInv, Current
  <2>2. CASE disk' = disk
    BY <2>1, <2>2, AgeQuiet DEF Dated, Files
  <2>3. CASE disk' = [disk EXCEPT ![index] = now]
    <3>1. /\ Files' = Files \union {index}
          /\ \A i \in Files' : disk'[i] = IF i = index THEN now ELSE disk[i]
      BY <2>1, <2>3 DEF Files
    <3>2. QED
      BY <2>1, <3>1, AgeTouch
  <2>4. QED
    BY <1>6, <2>2, <2>3 DEF WriteFrame
<1>7. CASE close
  <2>1. pc \in {"ready", "failed"} /\ UNCHANGED <<now, runs>>
    BY <1>7 DEF close, envVars
  <2>2. CASE cur
    BY <1>7, <2>1, <2>2, AgeClose DEF close, PlaylistsThen
  <2>3. CASE ~cur
    BY <1>7, <2>1, <2>3, AgeQuiet DEF close, Dated, Files
  <2>4. QED
    BY <2>2, <2>3
<1>8. CASE Crash
  <2>1. pc # "down" /\ pc' = "down" /\ UNCHANGED <<disk, now, runs>>
    BY <1>8 DEF Crash, diskVars, envVars
  <2>2. QED
    BY <2>1 DEF AgeInv, Files
<1>9. CASE Tick
  <2>1. /\ now < MaxTime /\ now' = now + 1
        /\ UNCHANGED <<pc, disk, segments, sweep, runs>>
    BY <1>9 DEF Tick, diskVars, segVars, sweepVars
  <2>2. now \in Nat /\ MaxTime \in Nat /\ Retention \in Nat
        /\ \A i \in Files : disk[i] \in Nat
    BY MuxerAssumption DEF DirectoryInv, MemoryInv
  <2>3. Files' = Files
    BY <2>1 DEF Files
  <2>4. QED
    BY <2>1, <2>2, <2>3 DEF AgeInv, Dated
<1>10. CASE UNCHANGED vars
  BY <1>10 DEF vars, diskVars, segVars, sweepVars, envVars, AgeInv, Dated, Files
<1>11. QED
  BY <1>1, <1>2, <1>3, <1>4, <1>5, <1>6, <1>7, <1>8, <1>9, <1>10, AgeOpen,
     AgeCleanup DEF Next, writePacket

LEMMA DeletesOldOnly ==
    ASSUME DirectoryInv, AgeInv, [Next]_vars, NEW i \in Files \ Files'
    PROVE  now - disk[i] > Retention
<1>1. CASE CleanupDelete
  <2>1. pc = "delete" /\ i \in sweep
    BY <1>1 DEF CleanupDelete, Files
  <2>2. QED
    BY <2>1 DEF AgeInv
<1>2. CASE (\E d \in Gaps : WriteFirst(d)) \/ RotateOpens
  BY <1>2 DEF WriteFirst, RotateOpens, startNewSegment, Files
<1>3. CASE updateArchivePlaylist
  BY <1>3 DEF updateArchivePlaylist, Files
<1>4. CASE open
  BY <1>4 DEF open, diskVars, Files
<1>5. QED
  BY <1>1, <1>2, <1>3, <1>4, OthersAreInvisible
     DEF Next, writePacket, cleanupOldSegments

(* RetentionKept, where the epochs agree or nothing is recovered: a file   *)
(* is deleted only when it is older than the retention.                    *)
THEOREM RetentionHolds ==
    ASSUME OneEpoch
    PROVE  Spec => RetentionKept
<1>1. Init => AgeInv
  BY MuxerAssumption DEF Init, AgeInv, Files
<1>2. DirectoryInv /\ DirectoryInv' /\ AgeInv /\ [Next]_vars => AgeInv'
  BY AgeStep
<1>3. DirectoryInv /\ AgeInv /\ [Next]_vars
      => [\A i \in Files \ Files' : now - disk[i] > Retention]_vars
  BY DeletesOldOnly
<1>4. QED
  BY <1>1, <1>2, <1>3, DirectoryHolds, PTL DEF Spec, RetentionKept
-----------------------------------------------------------------------------
(* The playlists and the durations, for an instance in which the calls     *)
(* that falsify them do not fail: a playlist that is not written, or cut   *)
(* short, stays so until the next update, and a segment whose first frame  *)
(* is not written has a duration of its own kind.                          *)

(* Where a pair of playlist updates leads.                                 *)
Towards(there) == pc = there \/ (pc \in {"live", "archive"} /\ after = there)

(* A change of segments_ is followed by both playlists, live first.        *)
PlaylistInv ==
    segments # <<>> =>
        /\ pc \notin {"down", "live", "forget"} => live = LiveContent
        /\ pc \notin {"down", "live", "forget", "archive"} => archive = ArchiveContent

LEMMA SamePlaylists ==
    ASSUME PlaylistInv, pc \notin {"down", "live", "archive", "forget"},
           UNCHANGED <<segments, live, archive>>
    PROVE  PlaylistInv'
BY DEF PlaylistInv, LiveContent, WindowStart, ArchiveContent

LEMMA PlaylistsStep ==
    ASSUME "playlist" \notin CanFail, "short" \notin CanFail,
           DirectoryInv, PlaylistInv, [Next]_vars
    PROVE  PlaylistInv'
<1>1. CASE pc' \in {"down", "live", "forget"}
  BY <1>1 DEF PlaylistInv
<1>2. CASE open
  <2>1. PICK found, timed : Opened(found, timed)
    BY <1>2, OpenFinds DEF DirectoryInv
  <2>2. CASE found = {}
    <3>1. segments' \in Seq(Segment) /\ DOMAIN segments' = {}
      BY <2>1, <2>2 DEF Opened, Entries
    <3>2. segments' = <<>>
      <4>1. Len(segments') \in Nat /\ DOMAIN segments' = 1..Len(segments')
        BY <3>1, SeqFacts
      <4>2. Len(segments') = 0
        BY <3>1, <4>1
      <4>3. QED
        BY <3>1, <4>2, EmptySeq
    <3>3. QED
      BY <3>2 DEF PlaylistInv
  <2>3. CASE found # {}
    BY <1>1, <2>1, <2>3 DEF Opened
  <2>4. QED
    BY <2>2, <2>3
<1>3. CASE \/ \E d \in Gaps : WriteFirst(d) \/ WriteFits(d)
           \/ RotateOpens \/ setupOutputStream \/ WriteFrame
           \/ CleanupBegin \/ CleanupDelete
  <2>1. /\ pc \notin {"down", "live", "archive", "forget"}
        /\ UNCHANGED <<segments, live, archive>>
    BY <1>3 DEF WriteFirst, WriteFits, RotateOpens, setupOutputStream, WriteFrame,
                CleanupBegin, CleanupDelete, diskVars, segVars
  <2>2. QED
    BY <2>1, SamePlaylists
<1>4. CASE \/ \E d \in Gaps : WriteRotates(d)
           \/ writeDiscontinuity \/ CleanupForget \/ CloseFinal \/ Crash
  <2>1. pc' \in {"down", "live", "forget"}
    BY <1>4 DEF WriteRotates, writeDiscontinuity, CleanupForget, CloseFinal, Crash,
                PlaylistsThen
  <2>2. QED
    BY <1>1, <2>1
<1>5. CASE PendingMarker \/ close
  <2>1. \/ pc' = "live"
        \/ /\ pc \notin {"down", "live", "archive", "forget"}
           /\ UNCHANGED <<segments, live, archive>>
    BY <1>5 DEF PendingMarker, close, PlaylistsThen, diskVars
  <2>2. QED
    BY <1>1, <2>1, SamePlaylists
<1>6. CASE updateLivePlaylist
  <2>1. live' = LiveContent /\ pc' = "archive" /\ segments' = segments
    BY <1>6 DEF updateLivePlaylist, Writes, segVars
  <2>2. QED
    BY <2>1 DEF PlaylistInv, LiveContent, WindowStart
<1>7. CASE updateArchivePlaylist
  <2>1. /\ archive' = ArchiveContent /\ live' = live /\ segments' = segments
        /\ pc = "archive"
    BY <1>7 DEF updateArchivePlaylist, Writes, segVars
  <2>2. QED
    BY <2>1 DEF PlaylistInv, LiveContent, WindowStart, ArchiveContent
<1>8. CASE Tick \/ UNCHANGED vars
  BY <1>8 DEF Tick, vars, diskVars, segVars, PlaylistInv, LiveContent, WindowStart,
              ArchiveContent
<1>9. QED
  BY <1>2, <1>3, <1>4, <1>5, <1>6, <1>7, <1>8 DEF Next, writePacket, cleanupOldSegments

(* The live playlist is the tail of the archive playlist.                  *)
LEMMA WindowIsTail ==
    ASSUME DirectoryInv, live = LiveContent, archive = ArchiveContent
    PROVE  LET n == Len(archive.entries)
               m == Len(live.entries)
           IN  /\ m = (IF n < LiveWindow THEN n ELSE LiveWindow)
               /\ live.seq = n - m
               /\ \A k \in 1..m : live.entries[k] = archive.entries[n - m + k]
<1> DEFINE n == Len(segments)
           b == WindowStart
           t == SubSeq(segments, b + 1, n)
<1>1. LiveWindow \in Nat \ {0} /\ segments \in Seq(Segment) /\ n \in Nat
  BY MuxerAssumption, SeqFacts DEF DirectoryInv, MemoryInv
<1>2. b \in Nat /\ b <= n /\ n - b = (IF n < LiveWindow THEN n ELSE LiveWindow)
  <2>1. WindowStart = IF n > LiveWindow THEN n - LiveWindow ELSE 0
    BY DEF WindowStart
  <2> HIDE DEF n
  <2>2. \A w \in Nat \ {0} : n \in Nat /\ w = LiveWindow =>
            /\ WindowStart \in Nat /\ WindowStart <= n
            /\ n - WindowStart = (IF n < w THEN n ELSE w)
    BY <2>1
  <2>3. QED
    BY <1>1, <2>2
<1>3. Len(t) = n - b /\ \A k \in 1..(n - b) : t[k] = segments[b + k]
  <2>1. b + 1 \in 1..(n + 1)
    BY <1>1, <1>2
  <2>2. /\ Len(t) = IF b + 1 <= n THEN n - (b + 1) + 1 ELSE 0
        /\ \A k \in 1..(n - (b + 1) + 1) : t[k] = segments[b + 1 + k - 1]
    BY <1>1, <1>2, <2>1, SubSeqProperties
  <2>3. QED
    BY <1>1, <1>2, <2>2
<1>4. /\ live.seq = b /\ live.entries = t
      /\ archive.entries = segments
  BY DEF LiveContent, ArchiveContent
<1> HIDE DEF b, t
<1>5. Len(archive.entries) = n /\ Len(live.entries) = n - b /\ n - (n - b) = b
  BY <1>1, <1>2, <1>3, <1>4
<1>6. \A k \in 1..(n - b) : live.entries[k] = archive.entries[b + k]
  BY <1>3, <1>4
<1>7. Len(archive.entries) - Len(live.entries) = b
  BY <1>5
<1>8. Len(live.entries) = (IF Len(archive.entries) < LiveWindow
                              THEN Len(archive.entries) ELSE LiveWindow)
  BY <1>2, <1>5
<1>9. \A k \in 1..Len(live.entries) : live.entries[k] =
          archive.entries[Len(archive.entries) - Len(live.entries) + k]
  BY <1>5, <1>6, <1>7
<1>10. QED
  BY <1>4, <1>7, <1>8, <1>9

(* PlaylistsCurrent: whenever no cleanup deletes and no playlist is being  *)
(* rewritten, the archive playlist lists every finished segment on disk    *)
(* that open() could read and no other, and the live playlist is its tail, *)
(* for any window, through rotations, cleanups and recoveries.             *)
THEOREM PlaylistsAreCurrent ==
    ASSUME "playlist" \notin CanFail, "short" \notin CanFail
    PROVE  Spec => []PlaylistsCurrent
<1>1. Init => PlaylistInv
  BY DEF Init, PlaylistInv
<1>2. DirectoryInv /\ PlaylistInv /\ [Next]_vars => PlaylistInv'
  BY PlaylistsStep
<1>3. DirectoryInv /\ TracksDisk /\ PlaylistInv => PlaylistsCurrent
  <2> SUFFICES ASSUME DirectoryInv, TracksDisk, PlaylistInv, segments # <<>>,
                      pc \notin {"down", "delete", "forget", "live", "archive"}
               PROVE  LET n == Len(archive.entries)
                          m == Len(live.entries)
                      IN  /\ Entries(archive.entries) = Files \ (Current \union Lost)
                          /\ m = (IF n < LiveWindow THEN n ELSE LiveWindow)
                          /\ live.seq = n - m
                          /\ \A k \in 1..m :
                                live.entries[k].idx = archive.entries[n - m + k].idx
    BY DEF PlaylistsCurrent
  <2>1. live = LiveContent /\ archive = ArchiveContent
    BY DEF PlaylistInv
  <2>2. Entries(archive.entries) = Files \ (Current \union Lost)
    <3>1. archive.entries = segments
      BY <2>1 DEF ArchiveContent
    <3>2. QED
      BY <3>1 DEF TracksDisk, Current
  <2>3. QED
    BY <2>1, <2>2, WindowIsTail
<1>4. QED
  BY <1>1, <1>2, <1>3, DirectoryHolds, DirectoryIsTracked, PTL DEF Spec
-----------------------------------------------------------------------------
(* A segment that is open has room for the packet it is given, and elapsed *)
(* is how long it has lasted; NoPts only before the first packet of a run. *)
(* Only the segment in which a header or a frame could not be written may  *)
(* have a negative duration, and the run ends with it.                     *)
Fails == "header" \in CanFail \/ "frame" \in CanFail

Lasting(s) == \A k \in DOMAIN s : s[k].dur \in 0..SegDur

LastFailed(s) ==
    /\ Len(s) \in DOMAIN s /\ s[Len(s)].dur <= SegDur
    /\ \A k \in DOMAIN s \ {Len(s)} : s[k].dur \in 0..SegDur

DurationInv ==
    /\ Lasting(segments) \/ (Fails /\ Ending /\ LastFailed(segments))
    /\ Towards("ready") \/ pc \in {"cleanup", "delete", "forget"} =>
           IF cur THEN elapsed \in 0..(SegDur - 1) ELSE elapsed = NoPts
    /\ pc \in {"setup", "marker"} \/ Towards("frame") =>
           elapsed = NoPts \/ elapsed + gap \in 0..(SegDur - 1)
    /\ Towards("rotate") => elapsed \in Int
    /\ pc = "failed" /\ cur =>
           /\ Fails
           /\ elapsed = NoPts \/ (elapsed \in Int /\ elapsed <= SegDur)

LEMMA DurationOpens ==
    ASSUME DirectoryInv, Lasting(segments), startNewSegment, gap' \in Nat,
           segments' = segments, ~cur, elapsed \in Int \union {NoPts}
    PROVE  DurationInv'
<1>1. NoPts \notin Int /\ SegDur \in Nat \ {0}
  BY MuxerAssumption
<1>2. CASE pc' = "failed" /\ UNCHANGED cur
  BY <1>2 DEF DurationInv, Towards, Lasting
<1>3. CASE pc' = "setup" /\ elapsed' = IF elapsed = NoPts THEN NoPts ELSE -gap'
  <2>1. \A g \in Nat : -g + g = 0
    OBVIOUS
  <2>2. elapsed' = NoPts \/ (elapsed' = -gap' /\ elapsed' + gap' = 0)
    BY <1>3, <2>1
  <2>3. 0 \in 0..(SegDur - 1)
    BY <1>1
  <2>4. elapsed' = NoPts \/ elapsed' + gap' \in 0..(SegDur - 1)
    BY <2>2, <2>3
  <2>5. QED
    BY <1>3, <2>4 DEF DurationInv, Towards, Lasting
<1>4. QED
  BY <1>2, <1>3 DEF startNewSegment

(* Closing a segment whose duration is known records that.                 *)
LEMMA DurationCloses ==
    ASSUME DirectoryInv, DurationInv, pc = "ready", cur, RecordSegment,
           elapsed' = elapsed, pc' = "live", after' \in {"rotate", "final"}
    PROVE  DurationInv'
<1>1. NoPts \notin Int /\ SegDur \in Nat \ {0}
  BY MuxerAssumption
<1>2. elapsed \in 0..(SegDur - 1)
  BY DEF DurationInv, Towards
<1> DEFINE e == [idx |-> index, created |-> now, disc |-> flagNext,
                 dur |-> Duration]
<1>3. Duration \in 0..SegDur /\ Duration \in Int
  BY <1>1, <1>2 DEF Duration
<1>4. e \in Segment /\ e.dur \in 0..SegDur
  BY <1>3 DEF Segment, DirectoryInv, MemoryInv
<1>5. segments' = Append(segments, e)
  BY DEF RecordSegment
<1> HIDE DEF e
<1>6. /\ DOMAIN segments' = 1..(Len(segments) + 1)
      /\ \A k \in 1..Len(segments) : segments'[k] = segments[k]
      /\ segments'[Len(segments) + 1] = e
      /\ DOMAIN segments = 1..Len(segments) /\ Len(segments) \in Nat
  BY <1>4, <1>5, AppendEntries, SeqFacts DEF DirectoryInv, MemoryInv
<1>7. Lasting(segments')
  BY <1>4, <1>6 DEF DurationInv, Lasting, Ending
<1>8. QED
  BY <1>1, <1>2, <1>7 DEF DurationInv, Towards

(* A run that ends must only have the durations of its list right.         *)
LEMMA DurationEnds ==
    ASSUME Ending', Lasting(segments') \/ (Fails /\ LastFailed(segments'))
    PROVE  DurationInv'
BY DEF DurationInv, Towards, Ending, Lasting, LastFailed

(* Closing the segment in which a header or a frame could not be written.  *)
LEMMA DurationFails ==
    ASSUME DirectoryInv, DurationInv, pc = "failed", cur, RecordSegment,
           pc' = "live", after' = "final"
    PROVE  DurationInv'
<1>1. SegDur \in Nat \ {0}
  BY MuxerAssumption
<1>2. /\ Fails
      /\ Duration \in Int /\ Duration <= SegDur
  BY <1>1 DEF DurationInv, Duration
<1> DEFINE e == [idx |-> index, created |-> now, disc |-> flagNext,
                 dur |-> Duration]
<1>3. e \in Segment /\ e.dur <= SegDur
  BY <1>2 DEF Segment, DirectoryInv, MemoryInv
<1>4. segments' = Append(segments, e)
  BY DEF RecordSegment
<1> HIDE DEF e
<1>5. /\ DOMAIN segments' = 1..(Len(segments) + 1)
      /\ \A k \in 1..Len(segments) : segments'[k] = segments[k]
      /\ segments'[Len(segments) + 1] = e
      /\ DOMAIN segments = 1..Len(segments) /\ Len(segments) \in Nat
  BY <1>3, <1>4, AppendEntries, SeqFacts DEF DirectoryInv, MemoryInv
<1>6. Len(segments') = Len(segments) + 1
  BY <1>3, <1>4 DEF DirectoryInv, MemoryInv
<1>7. Lasting(segments)
  BY DEF DurationInv, Ending
<1>8. LastFailed(segments')
  <2>1. /\ Len(segments') \in DOMAIN segments'
        /\ segments'[Len(segments')].dur <= SegDur
    BY <1>3, <1>5, <1>6
  <2>2. \A k \in DOMAIN segments' \ {Len(segments')} : k \in 1..Len(segments)
    BY <1>5, <1>6
  <2>3. QED
    BY <1>5, <1>7, <2>1, <2>2 DEF Lasting, LastFailed
<1>9. QED
  BY <1>2, <1>8, DurationEnds DEF Ending

(* A step of a call in progress that changes no segment's duration.        *)
LEMMA DurationKeeps ==
    ASSUME DurationInv, UNCHANGED <<cur, elapsed, gap>>,
           Lasting(segments'),
           \/ pc = "ready" /\ pc' = "live" /\ after' = "ready"
           \/ pc = "setup" /\ pc' = "marker"
           \/ pc = "marker" /\ (pc' = "frame" \/ (pc' = "live" /\ after' = "frame"))
           \/ pc = "live" /\ pc' = "archive" /\ after' = after
           \/ pc = "archive" /\ pc' = after /\ after' = after
           \/ pc \in {"cleanup", "delete", "forget"} /\ pc' \in {"ready", "delete", "forget"}
           \/ pc = "forget" /\ pc' = "live" /\ after' = "ready"
           \/ pc = "ready" /\ pc' = "final"
           \/ pc = "failed" /\ pc' = "final"
           \/ pc = "final" /\ pc' = "live" /\ after' = "down"
           \/ UNCHANGED <<pc, after>>,
           after \in {"down", "ready", "rotate", "frame", "final"}
    PROVE  DurationInv'
BY DEF DurationInv, Towards, Lasting

LEMMA DurationStep ==
    ASSUME DirectoryInv, DurationInv, [Next]_vars
    PROVE  DurationInv'
<1>1. NoPts \notin Int /\ SegDur \in Nat \ {0} /\ Gaps \subseteq Nat \ {0}
  BY MuxerAssumption
<1>2. /\ elapsed \in Int \union {NoPts} /\ gap \in Nat /\ segments \in Seq(Segment)
      /\ after \in {"down", "ready", "rotate", "frame", "final"}
  BY DEF DirectoryInv, MemoryInv, PhaseInv
<1>3. pc \notin {"final", "down", "live", "archive"} => Lasting(segments)
  BY DEF DurationInv, Ending
<1>4. CASE open
  <2>1. PICK found, timed : Opened(found, timed)
    BY <1>4, OpenFinds DEF DirectoryInv
  <2>2. Lasting(segments')
    BY <1>1, <2>1 DEF Opened, Lasting
  <2>3. /\ ~cur' /\ elapsed' = NoPts
        /\ pc' = "ready" \/ (pc' = "live" /\ after' = "ready")
    BY <1>4, <2>1 DEF open, Opened
  <2>4. QED
    BY <1>1, <2>2, <2>3 DEF DurationInv, Towards
<1>5. ASSUME NEW d \in Gaps, WriteFirst(d) \/ WriteRotates(d) \/ WriteFits(d)
      PROVE  DurationInv'
  <2>1. CASE WriteFirst(d)
    BY <1>1, <1>2, <1>3, <2>1, DurationOpens DEF WriteFirst
  <2>2. CASE WriteRotates(d)
    BY <2>2, DurationCloses DEF WriteRotates, PlaylistsThen
  <2>3. CASE WriteFits(d)
    <3>1. /\ pc = "ready" /\ cur /\ pc' = "marker" /\ gap' = d /\ elapsed + d < SegDur
          /\ UNCHANGED <<segments, cur, elapsed>>
      BY <2>3 DEF WriteFits
    <3>2. elapsed \in 0..(SegDur - 1) /\ d \in Nat
      BY <1>1, <3>1 DEF DurationInv, Towards
    <3>3. elapsed' + gap' \in 0..(SegDur - 1)
      BY <1>1, <3>1, <3>2
    <3>4. Lasting(segments')
      BY <1>3, <3>1
    <3>5. QED
      BY <3>1, <3>3, <3>4 DEF DurationInv, Towards
  <2>4. QED
    BY <1>5, <2>1, <2>2, <2>3
<1>6. CASE RotateOpens
  <2>1. ~cur /\ startNewSegment /\ gap' = gap /\ segments' = segments /\ pc = "rotate"
    BY <1>6 DEF RotateOpens, DirectoryInv, PhaseInv
  <2>2. QED
    BY <1>2, <1>3, <2>1, DurationOpens
<1>7. CASE setupOutputStream
  <2>1. /\ pc = "setup" /\ UNCHANGED <<segments, cur, elapsed, gap, after>>
        /\ pc' = "marker" \/ (pc' = "failed" /\ Fails)
    BY <1>7 DEF setupOutputStream, Fails
  <2>2. Lasting(segments')
    BY <1>3, <2>1
  <2>3. CASE pc' = "marker"
    BY <1>2, <2>1, <2>2, <2>3, DurationKeeps
  <2>4. CASE pc' = "failed"
    <3>1. elapsed' = NoPts \/ (elapsed' \in Int /\ elapsed' <= SegDur)
      BY <1>1, <1>2, <2>1 DEF DurationInv
    <3>2. QED
      BY <2>1, <2>2, <2>4, <3>1 DEF DurationInv, Towards
  <2>5. QED
    BY <2>1, <2>3, <2>4
<1>8. CASE PendingMarker \/ writeDiscontinuity
  <2>1. SameNumbers(segments, segments')
    <3>1. CASE MarkDiscontinuity
      BY <3>1, MarkKeepsNumbers DEF DirectoryInv, MemoryInv
    <3>2. CASE UNCHANGED segments
      BY <1>2, <3>2, SameNumbersRefl
    <3>3. QED
      BY <1>8, <3>1, <3>2 DEF PendingMarker, writeDiscontinuity
  <2>2. Lasting(segments')
    BY <1>3, <1>8, <2>1 DEF SameNumbers, Lasting, PendingMarker, writeDiscontinuity
  <2>3. UNCHANGED <<cur, elapsed, gap>>
    BY <1>8 DEF PendingMarker, writeDiscontinuity
  <2>4. \/ pc = "ready" /\ pc' = "live" /\ after' = "ready"
        \/ pc = "marker" /\ (pc' = "frame" \/ (pc' = "live" /\ after' = "frame"))
    BY <1>8 DEF PendingMarker, writeDiscontinuity, PlaylistsThen
  <2>5. QED
    BY <1>2, <2>2, <2>3, <2>4, DurationKeeps
<1>9. CASE WriteFrame
  <2>1. pc = "frame" /\ cur' = cur /\ cur /\ segments' = segments
    BY <1>9 DEF WriteFrame, DirectoryInv, PhaseInv
  <2>2. Lasting(segments')
    BY <1>3, <2>1
  <2>3. CASE /\ pc' \in {"cleanup", "ready"}
             /\ elapsed' = (IF elapsed = NoPts THEN 0 ELSE elapsed + gap)
    <3>1. elapsed' \in 0..(SegDur - 1)
      BY <1>1, <2>1, <2>3 DEF DurationInv, Towards
    <3>2. QED
      BY <2>1, <2>2, <2>3, <3>1 DEF DurationInv, Towards
  <2>4. CASE Fails /\ pc' = "failed" /\ elapsed' = elapsed
    <3>1. elapsed' = NoPts \/ (elapsed' \in Int /\ elapsed' <= SegDur)
      <4>1. elapsed = NoPts \/ elapsed + gap \in 0..(SegDur - 1)
        BY <2>1 DEF DurationInv, Towards
      <4>2. QED
        BY <1>1, <1>2, <2>4, <4>1
    <3>2. QED
      BY <2>2, <2>4, <3>1 DEF DurationInv, Towards
  <2>5. QED
    BY <1>9, <2>3, <2>4 DEF WriteFrame, Fails
<1>10. CASE cleanupOldSegments
  <2>1. UNCHANGED <<cur, elapsed, gap>>
    BY <1>10 DEF cleanupOldSegments, CleanupBegin, CleanupDelete, CleanupForget, segVars
  <2>2. \/ pc \in {"cleanup", "delete", "forget"} /\ pc' \in {"ready", "delete", "forget"}
        \/ pc = "forget" /\ pc' = "live" /\ after' = "ready"
    BY <1>10 DEF cleanupOldSegments, CleanupBegin, CleanupDelete, CleanupForget,
                 PlaylistsThen
  <2>3. Lasting(segments')
    <3> Lasting(segments)
      BY <1>3, <1>10 DEF cleanupOldSegments, CleanupBegin, CleanupDelete, CleanupForget
    <3>1. CASE UNCHANGED segments
      BY <3>1
    <3>2. ASSUME NEW k \in DOMAIN segments, segments' = Without(segments, k)
          PROVE  Lasting(segments')
      <4>1. Removed(segments, k, segments')
        BY <1>2, <3>2, RemoveEntries
      <4>2. QED
        BY <4>1 DEF Removed, Lasting
    <3>3. QED
      BY <1>10, <3>1, <3>2 DEF cleanupOldSegments, CleanupBegin, CleanupDelete,
                               CleanupForget, Gone, segVars
  <2>4. QED
    BY <1>2, <2>1, <2>2, <2>3, DurationKeeps
<1>11. CASE updateLivePlaylist \/ updateArchivePlaylist \/ CloseFinal \/ Tick
             \/ UNCHANGED vars
  <2>1. UNCHANGED <<cur, elapsed, gap, segments>>
    BY <1>11 DEF updateLivePlaylist, updateArchivePlaylist, CloseFinal, Tick, vars, segVars
  <2>2. \/ pc = "live" /\ pc' = "archive" /\ after' = after
        \/ pc = "archive" /\ pc' = after /\ after' = after
        \/ pc = "final" /\ pc' = "live" /\ after' = "down"
        \/ UNCHANGED <<pc, after>>
    BY <1>11 DEF updateLivePlaylist, updateArchivePlaylist, CloseFinal, Tick, vars,
                 PlaylistsThen
  <2>3. CASE Lasting(segments)
    BY <1>2, <2>1, <2>2, <2>3, DurationKeeps
  <2>4. CASE Fails /\ Ending /\ LastFailed(segments)
    <3>1. Ending'
      BY <2>2, <2>4 DEF Ending
    <3>2. QED
      BY <2>1, <2>4, <3>1, DurationEnds
  <2>5. QED
    BY <2>3, <2>4 DEF DurationInv
<1>12. CASE close
  <2>1. elapsed' = elapsed /\ gap' = gap /\ pc \in {"ready", "failed"}
    BY <1>12 DEF close
  <2>2. CASE cur
    <3>1. RecordSegment /\ pc' = "live" /\ after' = "final"
      BY <1>12, <2>2 DEF close, PlaylistsThen
    <3>2. QED
      BY <2>1, <2>2, <3>1, DurationCloses, DurationFails
  <2>3. CASE ~cur
    <3>1. /\ pc' = "final" /\ segments' = segments /\ cur' = cur
          /\ after \in {"down", "ready", "rotate", "frame", "final"} /\ after' = after
      BY <1>2, <1>12, <2>3 DEF close
    <3>2. Lasting(segments')
      BY <1>3, <2>1, <3>1
    <3>3. QED
      BY <2>1, <3>1, <3>2, DurationKeeps
  <2>4. QED
    BY <2>2, <2>3
<1>13. CASE Crash
  <2>1. pc' = "down" /\ after' = "down" /\ segments' = <<>>
    BY <1>13 DEF Crash
  <2>2. QED
    BY <2>1, DurationEnds DEF Ending, Lasting
<1>14. QED
  BY <1>4, <1>5, <1>6, <1>7, <1>8, <1>9, <1>10, <1>11, <1>12, <1>13
  DEF Next, writePacket

(* DurationsSane: no entry of a playlist is longer than segment_duration_s *)
(* and only the last one of a run that is over may be negative, for any    *)
(* gaps between the packets, whatever calls fail.                          *)
THEOREM DurationsAreSane == Spec => []DurationsSane
<1>1. Init => DurationInv
  BY DEF Init, DurationInv, Towards, Lasting
<1>2. DirectoryInv /\ DurationInv /\ [Next]_vars => DurationInv'
  BY DurationStep
<1>3. DurationInv => DurationsSane
  BY MuxerAssumption DEF DurationInv, DurationsSane, Lasting, LastFailed
<1>4. QED
  BY <1>1, <1>2, <1>3, DirectoryHolds, PTL DEF Spec

(* NoNegativeDuration, as SegmentInfo has it: where headers and frames can *)
(* be written no duration is ever negative, not even in a run that crashed *)
(* or in one in which other calls failed.                                  *)
THEOREM NoDurationIsNegative ==
    ASSUME "header" \notin CanFail, "frame" \notin CanFail
    PROVE  Spec => []NoNegativeDuration
<1>1. Init => DurationInv
  BY DEF Init, DurationInv, Towards, Lasting
<1>2. DirectoryInv /\ DurationInv /\ [Next]_vars => DurationInv'
  BY DurationStep
<1>3. DurationInv => NoNegativeDuration
  BY MuxerAssumption DEF DurationInv, NoNegativeDuration, Lasting, Fails
<1>4. QED
  BY <1>1, <1>2, <1>3, DirectoryHolds, PTL DEF Spec
=============================================================================
