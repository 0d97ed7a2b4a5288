------------------------------ MODULE HlsMuxer ------------------------------
(***************************************************************************)
(* HlsMuxer (src/mux/HlsMuxer.cpp): writes the packets of one stream into  *)
(* numbered segment files, keeps the live and the archive playlist next to *)
(* them, deletes the segments that are too old, and finds the segments of  *)
(* an earlier run when it is opened.                                       *)
(*                                                                         *)
(* Every effect on the disk is a step of its own, so that the process may  *)
(* crash and a reader may look between any two of them; pc is where the    *)
(* muxer is, and `after' where it goes on once both playlists are written. *)
(* A packet is known by `gap', its distance from the previous packet's     *)
(* PTS, which PacketClock keeps positive.                                  *)
(***************************************************************************)
EXTENDS Integers, Sequences, FiniteSets

CONSTANTS
    SegDur,         \* segment_duration_s, in ticks of PTS
    Gaps,           \* the PTS distances between packets
    LiveWindow,     \* liveWindowSize of updateLivePlaylist
    Retention,      \* archive_retention_hours, in ticks of time
    MinAge,         \* the 7200 s of cleanupOldSegments
    CleanupEvery,   \* cleanup_interval_s
    EpochShift,     \* file_clock's epoch (2174) minus the Unix epoch
    IntHalf,        \* 2^31: an int holds -IntHalf .. IntHalf-1
    CanFail,        \* the calls that may fail in this instance
    NoPts,          \* AV_NOPTS_VALUE
    MaxIndex,       \* bound: segment numbers 0 .. MaxIndex
    MaxTime,        \* bound: clock ticks
    MaxRuns         \* bound: calls of open()

ASSUME MuxerAssumption ==
    /\ SegDur \in Nat \ {0} /\ Gaps \subseteq Nat \ {0}
    /\ LiveWindow \in Nat \ {0}
    /\ Retention \in Nat /\ MinAge \in Nat /\ CleanupEvery \in Nat
    /\ EpochShift \in Nat /\ IntHalf \in Nat \ {0}
    /\ CanFail \subseteq {"scan", "stat", "create", "header", "frame", "remove",
                         "playlist", "short"}
    /\ NoPts \notin Int
    /\ MaxIndex \in Nat /\ MaxTime \in Nat /\ MaxRuns \in Nat

VARIABLES
    pc, after,
    disk,           \* the segment files: number -> modification time
    live, archive,  \* the two playlists on disk
    segments,       \* segments_
    cur,            \* currentSegmentFormat_ is set
    index,          \* currentSegmentIndex_
    elapsed,        \* lastPacketPts_ - currentSegmentStartPts_
    gap,            \* the packet writePacket is given
    flagNext,       \* discontinuity_written_for_segment_
    pending,        \* stream_restart_pending_
    sweep,          \* the segments this cleanup has yet to delete
    lastCleanup,    \* lastCleanupTime_
    now,            \* std::time
    runs,           \* how often the muxer was opened
    resumed,        \* the first segment of every run that found older ones
    highest,        \* the highest segment number ever written
    unseen,         \* the files that the last open() did not get to see
    untimed         \* ... and those that it saw but has no entry for

diskVars == <<disk, live, archive>>
segVars == <<segments, cur, index, elapsed, gap, flagNext, pending>>
sweepVars == <<sweep, lastCleanup>>
envVars == <<now, runs>>
lost == <<unseen, untimed>>
history == <<resumed, highest, lost>>
vars == <<pc, after, diskVars, segVars, sweepVars, envVars, history>>

Files == DOMAIN disk
Entries(s) == {s[k].idx : k \in DOMAIN s}
NoPlaylist == [seq |-> 0, entries |-> <<>>]
-----------------------------------------------------------------------------
(* Writing the two playlists, and crashing.                                *)

(* The playlists are written next, then the muxer goes on at `there'.      *)
PlaylistsThen(there) == pc' = "live" /\ after' = there

WindowStart == IF Len(segments) > LiveWindow THEN Len(segments) - LiveWindow ELSE 0

LiveContent ==
    [seq |-> WindowStart, entries |-> SubSeq(segments, WindowStart + 1, Len(segments))]

(* Wrong: the archive playlist is a rolling window as well.                *)
ArchiveContentRolls == LiveContent

ArchiveContent == [seq |-> 0, entries |-> segments]

(* writePlaylistFile: the temporary file replaces the playlist; or that    *)
(* file cannot be opened or renamed and the playlist stays; or it is cut   *)
(* short (the ofstream's state is not looked at after the write) and       *)
(* replaces the playlist all the same.                                     *)
Writes(old, new, content) ==
    \/ new = content
    \/ "playlist" \in CanFail /\ new = old
    \/ /\ "short" \in CanFail
       /\ \E n \in 0..(Len(content.entries) - 1) :
              new = [content EXCEPT !.entries = SubSeq(content.entries, 1, n)]

updateLivePlaylist ==
    /\ pc = "live"
    /\ Writes(live, live', LiveContent)
    /\ pc' = "archive"
    /\ UNCHANGED <<after, disk, archive, segVars, sweepVars, envVars, history>>

updateArchivePlaylist ==
    /\ pc = "archive"
    /\ Writes(archive, archive', ArchiveContent)
    /\ pc' = after
    /\ UNCHANGED <<after, disk, live, segVars, sweepVars, envVars, history>>

(* The process dies: what is on disk stays, the rest is gone.              *)
Crash ==
    /\ pc # "down"
    /\ pc' = "down" /\ after' = "down"
    /\ segments' = <<>> /\ cur' = FALSE /\ index' = 0
    /\ elapsed' = NoPts /\ gap' = 0 /\ flagNext' = FALSE /\ pending' = FALSE
    /\ sweep' = {} /\ lastCleanup' = 0
    /\ UNCHANGED <<diskVars, envVars, history>>

Tick ==
    /\ now < MaxTime
    /\ now' = now + 1
    /\ UNCHANGED <<pc, after, diskVars, segVars, sweepVars, runs, history>>
-----------------------------------------------------------------------------
(* open(), on a new HlsMuxer.  When the directory cannot be made it returns *)
(* false, and nothing has changed.                                         *)

(* The iteration ends where it raises an exception, and open() goes on with *)
(* what it has found so far.                                               *)
Scans == IF "scan" \in CanFail THEN SUBSET Files ELSE {Files}

(* A file whose time cannot be read counts for the numbering, and gets no  *)
(* entry.                                                                  *)
Timed(found) == IF "stat" \in CanFail THEN SUBSET found ELSE {found}

(* directory_iterator lists the files in no particular order.              *)
Orders(S) ==
    {f \in [1..Cardinality(S) -> S] :
        /\ \A i \in S : \E k \in DOMAIN f : f[k] = i
        /\ \A j, k \in DOMAIN f : f[j] = f[k] => j = k}

(* Wrong: whichever file directory_iterator lists last.                    *)
NewestAny(found, m) == m \in found

(* The highest number found.                                               *)
Newest(found, m) == m \in found /\ \A i \in found : i <= m

(* The modification time of a found file is read on file_clock and kept as *)
(* if it were a time_t.                                                    *)
Recovered(i) ==
    [idx |-> i, created |-> disk[i] - EpochShift, disc |-> FALSE, dur |-> SegDur]

open ==
    /\ pc = "down"
    /\ runs < MaxRuns
    /\ runs' = runs + 1
    /\ \E found \in Scans : \E timed \in Timed(found) :
       /\ \E order \in Orders(timed) :
              segments' = [k \in DOMAIN order |-> Recovered(order[k])]
       /\ \/ /\ found = {}
             /\ index' = 0
             /\ pc' = "ready" /\ UNCHANGED after
          \/ \E m \in found :
             /\ Newest(found, m)
             /\ index' = m + 1
             /\ PlaylistsThen("ready")
       /\ pending' = (found # {})
       /\ unseen' = Files \ found /\ untimed' = found \ timed
    /\ cur' = FALSE /\ flagNext' = FALSE
    /\ elapsed' = NoPts
    /\ lastCleanup' = now
    /\ UNCHANGED <<diskVars, gap, sweep, now, resumed, highest>>
-----------------------------------------------------------------------------
(* writePacket(), from the call to the return.                             *)

(* Wrong: currentSegmentStartPts_ keeps its value from the last segment.   *)
startNewSegmentKeepsPts ==
    /\ disk' = [i \in Files \union {index} |-> IF i = index THEN now ELSE disk[i]]
    /\ cur' = TRUE
    /\ highest' = IF index > highest THEN index ELSE highest
    /\ resumed' = IF pending THEN resumed \union {index} ELSE resumed
    /\ unseen' = unseen \ {index}
    /\ pc' = "setup"
    /\ UNCHANGED <<elapsed, untimed>>

(* startNewSegment: the file is created, over one of the same number if    *)
(* the scan did not see it; or the call that creates it fails.             *)
startNewSegment ==
    \/ /\ disk' = [i \in Files \union {index} |-> IF i = index THEN now ELSE disk[i]]
       /\ cur' = TRUE
       /\ elapsed' = IF elapsed = NoPts THEN NoPts ELSE -gap'
       /\ highest' = IF index > highest THEN index ELSE highest
       /\ resumed' = IF pending THEN resumed \union {index} ELSE resumed
       /\ unseen' = unseen \ {index} /\ UNCHANGED untimed
       /\ pc' = "setup"
    \/ /\ "create" \in CanFail
       /\ pc' = "failed"
       /\ UNCHANGED <<disk, cur, elapsed, history>>

Duration == IF elapsed = NoPts THEN SegDur ELSE elapsed

(* Wrong: the next segment gets the same number.                           *)
RecordSameNumber ==
    /\ segments' = Append(segments,
           [idx |-> index, created |-> now, disc |-> flagNext,
            dur |-> Duration])
    /\ disk' = [disk EXCEPT ![index] = now]
    /\ flagNext' = FALSE
    /\ cur' = FALSE
    /\ UNCHANGED index

(* closeCurrentSegment up to its playlist updates.                         *)
RecordSegment ==
    /\ segments' = Append(segments,
           [idx |-> index, created |-> now, disc |-> flagNext,
            dur |-> Duration])
    /\ disk' = [disk EXCEPT ![index] = now]
    /\ flagNext' = FALSE
    /\ cur' = FALSE
    /\ index' = index + 1

(* The packet opens the first segment of the run.                          *)
WriteFirst(d) ==
    /\ pc = "ready" /\ ~cur
    /\ index <= MaxIndex
    /\ gap' = d
    /\ startNewSegment
    /\ UNCHANGED <<after, live, archive, segments, index, flagNext, pending,
                   sweepVars, envVars>>

(* It would make the current segment too long: that one is closed ...      *)
WriteRotates(d) ==
    /\ pc = "ready" /\ cur
    /\ elapsed + d >= SegDur
    /\ index < MaxIndex
    /\ gap' = d
    /\ RecordSegment
    /\ PlaylistsThen("rotate")
    /\ UNCHANGED <<live, archive, elapsed, pending, sweepVars, envVars,
                   history>>

(* ... and a new one is opened.                                            *)
RotateOpens ==
    /\ pc = "rotate"
    /\ UNCHANGED gap
    /\ startNewSegment
    /\ UNCHANGED <<after, live, archive, segments, index, flagNext, pending,
                   sweepVars, envVars>>

WriteFits(d) ==
    /\ pc = "ready" /\ cur
    /\ elapsed + d < SegDur
    /\ gap' = d
    /\ pc' = "marker"
    /\ UNCHANGED <<after, diskVars, segments, cur, index, elapsed,
                   flagNext, pending, sweepVars, envVars, history>>

(* The stream and the header of the segment just created.                  *)
setupOutputStream ==
    /\ pc = "setup"
    /\ \/ pc' = "marker"
       \/ "header" \in CanFail /\ pc' = "failed"
    /\ UNCHANGED <<after, diskVars, segments, cur, index, elapsed, gap,
                   flagNext, pending, sweepVars, envVars, history>>

(* Wrong: the marker goes to the oldest segment in the list.               *)
MarkDiscontinuityOldest ==
    IF segments = <<>>
       THEN flagNext' = TRUE /\ UNCHANGED segments
       ELSE segments' = [segments EXCEPT ![1].disc = TRUE] /\ UNCHANGED flagNext

(* writeDiscontinuity marks the last segment that was closed; the segment  *)
(* being written only when none was.                                       *)
MarkDiscontinuity ==
    IF segments = <<>>
       THEN flagNext' = TRUE /\ UNCHANGED segments
       ELSE segments' = [segments EXCEPT ![Len(segments)].disc = TRUE]
            /\ UNCHANGED flagNext

PendingMarker ==
    /\ pc = "marker"
    /\ IF pending
          THEN MarkDiscontinuity /\ PlaylistsThen("frame")
          ELSE pc' = "frame" /\ UNCHANGED <<after, segments, flagNext>>
    /\ pending' = FALSE
    /\ UNCHANGED <<diskVars, cur, index, elapsed, gap, sweepVars,
                   envVars, history>>

(* av_write_frame, then the cleanup when its interval is over.             *)
WriteFrame ==
    /\ pc = "frame"
    /\ \/ /\ elapsed' = IF elapsed = NoPts THEN 0 ELSE elapsed + gap
          /\ disk' = [disk EXCEPT ![index] = now]
          /\ pc' = IF now - lastCleanup >= CleanupEvery THEN "cleanup" ELSE "ready"
       \/ "frame" \in CanFail /\ pc' = "failed" /\ UNCHANGED <<elapsed, disk>>
    /\ UNCHANGED <<after, live, archive, segments, cur, index, gap,
                   flagNext, pending, sweepVars, envVars, history>>

(* StreamWorker saw a reconnect: it calls writeDiscontinuity itself.       *)
writeDiscontinuity ==
    /\ pc = "ready"
    /\ MarkDiscontinuity
    /\ PlaylistsThen("ready")
    /\ UNCHANGED <<diskVars, cur, index, elapsed, gap, pending,
                   sweepVars, envVars, history>>
-----------------------------------------------------------------------------
(* cleanupOldSegments(), inside writePacket().                             *)

(* static_cast<int> of a difference of times.                              *)
ToInt(x) == ((x + IntHalf) % (2 * IntHalf)) - IntHalf

(* Wrong: the minimum age alone decides.                                   *)
TooOldForMinAge(seg) == ToInt(now - seg.created) > MinAge

(* Both bounds have to be passed (the comment at line 421 says "OR").      *)
TooOld(seg) ==
    LET age == ToInt(now - seg.created) IN age > Retention /\ age > MinAge

CleanupBegin ==
    /\ pc = "cleanup"
    /\ lastCleanup' = now
    /\ sweep' = {segments[k].idx : k \in {j \in DOMAIN segments : TooOld(segments[j])}}
    /\ pc' = IF sweep' = {} THEN "ready" ELSE "delete"
    /\ UNCHANGED <<after, diskVars, segVars, envVars, history>>

CleanupDelete ==
    /\ pc = "delete"
    /\ \E i \in sweep :
        /\ sweep' = sweep \ {i}
        /\ \/ disk' = [j \in Files \ {i} |-> disk[j]]
           \/ "remove" \in CanFail /\ UNCHANGED disk
    /\ pc' = IF sweep' = {} THEN "forget" ELSE "delete"
    /\ UNCHANGED <<after, live, archive, segVars, lastCleanup, envVars, history>>

(* Wrong: every entry that is too old, deleted or not.                     *)
GoneIfOld == {k \in DOMAIN segments : TooOld(segments[k])}

Gone == {k \in DOMAIN segments : segments[k].idx \notin Files}

Without(s, k) == [j \in 1..(Len(s) - 1) |-> IF j < k THEN s[j] ELSE s[j + 1]]

(* segments_.erase of the entries whose file is gone, one after the other. *)
CleanupForget ==
    /\ pc = "forget"
    /\ \/ \E k \in Gone :
          /\ \A j \in Gone : k <= j
          /\ segments' = Without(segments, k)
          /\ UNCHANGED <<pc, after>>
       \/ /\ Gone = {}
          /\ PlaylistsThen("ready") /\ UNCHANGED segments
    /\ UNCHANGED <<diskVars, cur, index, elapsed, gap, flagNext,
                   pending, sweepVars, envVars, history>>
-----------------------------------------------------------------------------
(* close(): the worker stops, or gives up after a failed writePacket().    *)
close ==
    /\ pc \in {"ready", "failed"}
    /\ IF cur
          THEN RecordSegment /\ PlaylistsThen("final")
          ELSE pc' = "final"
               /\ UNCHANGED <<after, segments, disk, flagNext, cur, index>>
    /\ UNCHANGED <<live, archive, elapsed, gap, pending, sweepVars,
                   envVars, history>>

CloseFinal ==
    /\ pc = "final"
    /\ PlaylistsThen("down")
    /\ UNCHANGED <<diskVars, segVars, sweepVars, envVars, history>>
-----------------------------------------------------------------------------
Init ==
    /\ pc = "down" /\ after = "down"
    /\ disk = [i \in {} |-> 0]
    /\ live = NoPlaylist /\ archive = NoPlaylist
    /\ segments = <<>> /\ cur = FALSE /\ index = 0
    /\ elapsed = NoPts /\ gap = 0 /\ flagNext = FALSE /\ pending = FALSE
    /\ sweep = {} /\ lastCleanup = 0
    /\ now = 0 /\ runs = 0
    /\ resumed = {} /\ highest = -1
    /\ unseen = {} /\ untimed = {}

writePacket ==
    \/ \E d \in Gaps : WriteFirst(d) \/ WriteRotates(d) \/ WriteFits(d)
    \/ RotateOpens \/ setupOutputStream \/ PendingMarker \/ WriteFrame

cleanupOldSegments == CleanupBegin \/ CleanupDelete \/ CleanupForget

Next ==
    \/ open \/ writePacket \/ writeDiscontinuity \/ cleanupOldSegments
    \/ updateLivePlaylist \/ updateArchivePlaylist
    \/ close \/ CloseFinal
    \/ Crash \/ Tick

Spec == Init /\ [][Next]_vars
-----------------------------------------------------------------------------
Segment == [idx : Nat, created : Int, disc : BOOLEAN, dur : Int]
Playlist == [seq : Nat, entries : Seq(Segment)]
Phase == {"down", "ready", "setup", "marker", "frame", "rotate", "failed",
          "cleanup", "delete", "forget", "final", "live", "archive"}

TypeOK ==
    /\ pc \in Phase /\ after \in {"down", "ready", "rotate", "frame", "final"}
    /\ Files \subseteq Nat /\ \A i \in Files : disk[i] \in Nat
    /\ live \in Playlist /\ archive \in Playlist
    /\ segments \in Seq(Segment)
    /\ cur \in BOOLEAN /\ index \in Nat
    /\ elapsed \in Int \union {NoPts} /\ gap \in Nat
    /\ flagNext \in BOOLEAN /\ pending \in BOOLEAN
    /\ sweep \subseteq Nat /\ lastCleanup \in Nat
    /\ now \in Nat /\ runs \in Nat
    /\ resumed \subseteq Nat /\ highest \in Int
    /\ unseen \subseteq Nat /\ untimed \subseteq Nat

Current == IF cur THEN {index} ELSE {}

Lost == unseen \union untimed

(* The muxer knows its directory: between two cleanups it tracks exactly   *)
(* the finished files, each once, through every rotation, failed call,     *)
(* crash and recovery, but for those that open() failed to read.  A file   *)
(* it lost track of is kept, and listed nowhere, until the next open().    *)
TracksDisk ==
    pc \notin {"down", "delete", "forget"} =>
        /\ Files = Entries(segments) \union Current \union Lost
        /\ Lost \intersect (Entries(segments) \union Current) = {}
        /\ \A j, k \in DOMAIN segments :
               segments[j].idx = segments[k].idx => j = k
        /\ cur => index \notin Entries(segments)

(* A segment number is used once in the life of the directory, so that no  *)
(* file a playlist, a client's cache or a stored detection refers to is    *)
(* written again, crashes, cleanups and failing calls included.  There is  *)
(* one exception: a scan in open() that fails ("Not fatal", and the run    *)
(* begins again below what was not found), and it lasts no longer than     *)
(* until this run has reached the highest number ever used.                *)
NumbersNeverReused ==
    [][~cur /\ cur' => index' > highest \/ highest \in unseen]_vars

(* Whoever reads the directory finds every finished segment that the muxer *)
(* has an entry for in the archive playlist, no missing one, and the live  *)
(* playlist the tail of the archive, with the MEDIA-SEQUENCE at which its  *)
(* first segment stands there.  It may be otherwise only while a cleanup   *)
(* deletes, while the playlists are being rewritten, and from a crash in   *)
(* between to the next open(); and in a run that has no segment to list,   *)
(* which leaves the lists of the run before.                               *)
PlaylistsCurrent ==
    pc \notin {"down", "delete", "forget", "live", "archive"} /\ segments # <<>> =>
        LET n == Len(archive.entries)
            m == Len(live.entries)
        IN  /\ Entries(archive.entries) = Files \ (Current \union Lost)
            /\ m = (IF n < LiveWindow THEN n ELSE LiveWindow)
            /\ live.seq = n - m
            /\ \A k \in 1..m :
                   live.entries[k].idx = archive.entries[n - m + k].idx

(* No segment is deleted before it is older than the retention.            *)
RetentionKept ==
    [][\A i \in Files \ Files' : now - disk[i] > Retention]_vars

(* The run is over: close() has recorded the last segment.                 *)
Ending ==
    \/ pc \in {"final", "down"}
    \/ pc \in {"live", "archive"} /\ after \in {"final", "down"}

(* A finished segment lasts from its first packet to its last, and never   *)
(* longer than segment_duration_s (SegmentInfo, HlsMuxer.h:18-20).  When a *)
(* header or a first frame cannot be written a new start meets an old end, *)
(* which makes the duration negative: that is confined to the last segment *)
(* of the run, which is over, and the next run does not take it up.        *)
DurationsSane ==
    \A k \in DOMAIN segments :
        /\ segments[k].dur <= SegDur
        /\ segments[k].dur < 0 => Ending /\ k = Len(segments)

(* The directory keeps what HlsArchive promises its readers.               *)
Promise == INSTANCE HlsArchive WITH
    files <- Files, listed <- Entries(archive.entries), last <- highest,
    lost <- Lost
KeepsArchive == Promise!Spec
-----------------------------------------------------------------------------
(* What a comment, a doc or a test says and the code does not do: TLC      *)
(* refutes each property below (README, "Disagreements").                  *)

(* HlsMuxer.cpp, updateLivePlaylist: "Live playlist contains the most      *)
(* recent segments (rolling window)".                                      *)
LiveShowsNewest ==
    pc = "ready" =>
        \A i \in Entries(live.entries), j \in Files \ Current :
            j \notin Entries(live.entries) => j < i

(* HlsMuxer.cpp, open: "Mark that next segment should have discontinuity   *)
(* to signal restart/recovery boundary".                                   *)
RestartIsMarked ==
    pc = "ready" =>
        \A k \in DOMAIN archive.entries :
            archive.entries[k].idx \in resumed => archive.entries[k].disc

(* HlsMuxer.cpp, open: "This allows segment numbering to continue across   *)
(* stream restarts".                                                       *)
NumberingContinues == [][~cur /\ cur' => index' > highest]_vars

(* SegmentInfo, HlsMuxer.h:18-19: "PTS of first packet", "PTS of last      *)
(* packet" of a segment.                                                   *)
NoNegativeDuration == \A k \in DOMAIN segments : segments[k].dur >= 0

(* HlsMuxer.cpp, generatePlaylistContent: "Calculate MEDIA-SEQUENCE as     *)
(* index of first segment".                                                *)
SequenceIsFirstIndex ==
    live.entries # <<>> => live.seq = live.entries[1].idx

(* HlsMuxer.cpp, writePlaylistFile: "Write to temp file, then rename       *)
(* atomically to avoid partial reads".                                     *)
NoPartialPlaylist ==
    pc = "ready" => Len(archive.entries) = Len(segments)
=============================================================================
