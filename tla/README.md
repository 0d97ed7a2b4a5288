# Genea video streamer: TLA+ verification

The streamer reads H.264 from RTSP cameras, writes an HLS archive per camera
and serves it over HTTP. A second, Python, process follows the archives, runs
an object detector over them and stores what it finds; the HTTP server shows
those detections too. This directory holds the TLA+ models of both processes,
the TLC configurations that check them on small instances, and the theorems
that TLAPS proves about them. Paths below are relative to the root of the
repository; `PROJECT.json` puts `src/` in front of them. Headers are in
`include/streamer/`.

Contents: [inventory](#inventory), [modules](#modules), [runs](#runs),
[fairness](#fairness), [proofs](#proofs), [disagreements](#disagreements),
[what is left out](#what-is-left-out), [plan](#plan).

## Inventory

### The streamer (C++)

One main thread, one processing thread per camera, one HTTP listener thread.

    main ── StreamManager ── StreamWorker (one thread each)
      │           ▲               ├─ RtspSource ── ReconnectPolicy
      │           │ reports       ├─ PacketClock
      └── HttpServer ── files ◄───┴─ HlsMuxer

| Component | State it keeps | Operations | Hard behaviour | What makes it correct |
|---|---|---|---|---|
| `StreamManager`, `main` | workers, `stopped_`, `allStreamsFailedReported` | start, stop, destructor, `getAggregateHealth`, `getActiveStreamCount` | workers are stopped one by one on one thread; inactive ones are skipped; the queries run while every stream goes on | a shutdown leaves no thread and no resource, and ends; reports are current, and none is made of what is being destroyed |
| `StreamWorker` | `atomicStatus_`, `shutdownRequested_`, `stopped_`, thread, source, muxer | start, stop, destructor, processing loop | stop() against a thread anywhere between construction and blocking read; unsynchronised `rtspSource_` | no shutdown request is lost; the thread is joined before anything it uses is reused or freed |
| `RtspSource` | connection, `last_packet_time_`, `shutdown_requested_` | open, readPacket, requestShutdown | outage, stale timeout, retry, shutdown in the middle of any of them | every new connection is announced by the reconnect counter; the loop ends when told to and recovers otherwise |
| `ReconnectPolicy` | `attempt_count_`, `next_retry_time_` | backoff, jitter, reset | 32-bit wrap | a retry happens, and no later than the maximum delay allows |
| `PacketClock` | `lastPts_`, `lastDts_` | normalizePacket | timestamps that go back, are missing, or cross | output is muxable, strictly increasing, without lasting offset |
| `HlsMuxer` | `segments_`, open segment, numbering, restart and discontinuity flags, the directory | open, writePacket, writeDiscontinuity, cleanup, close | crash between any two writes; calls that fail; recovery from whatever is on disk, and from a scan that fails half-way; ages in two epochs | the muxer tracks what it read of its directory, the playlists match it, a number is reused only after a failed scan, nothing is deleted early |
| `HttpServer` | `running_`, listening socket, listener thread | start, stop, destructor, request handling | slow and vanished clients; stop() against the listener | the listener never outlives what it uses; no connection leaks; everyone is served |
| `PipelineHealth` | counters and times | record, query | read by the HTTP thread and main while written | the reconnect counter is what the worker relies on; a total lies between the values at the two ends of its report |
| `Config` | the settings, once | `loadConfig` | defaults in three places, checks that run only for the sections a file has, numbers that wrap | what runs has the settings the other parts assume |
| `Logger`, `StreamCopyPlanner` | none that changes | | | |

### The detector (Python)

One main thread, one `DetectionWorker` thread per enabled stream. It shares
with the streamer the archive directories (read) and the frames and the SQLite
database (written by it, read by `HttpServer`).

| Component | State it keeps | Operations | Hard behaviour | What makes it correct |
|---|---|---|---|---|
| `DetectionWorkerPool`, `__main__` | workers, `running` | start, stop, signal handler | the handler runs between any two steps of the main thread; a start fails with workers already running | a signal, or a failed start, ends the process |
| `DetectionWorker`, `HlsReader` | `running`, `last_segment_index`, database connection | start, stop, run | a list that skips, grows and is reordered; bounded join, so that the thread may outlive stop() | no segment twice, no lasting lag, nothing stored after stop() |
| frames and rows | `annotated/`, `raw/`, table `detections` | _process_segment; `queryDetectionFrame` in the server | names that collide within a second; writes that fail; a cut-off process | a row always has its frames, and they are of its kind |
| `config` | the settings, once | `load_config` | the pool knows its workers by `stream_id` only | every enabled stream has a worker that stop() finds |
| `Detector`, `FrameAnnotator`, `search_api` | none, or not reached by the program | | | |

`PROJECT.json` lists every component with its sources and status, and under
"hazards" each place where this code can go wrong in a way a test hardly
reaches, with the properties that would notice.

## Modules

| Module | Models | Composed of | Proofs |
|---|---|---|---|
| `StreamWorker` | `src/util/StreamWorker.cpp` | | `StreamProofs` |
| `StreamManager` | `src/util/StreamManager.cpp`, `src/main.cpp` | `StreamWorker` | `StreamProofs` |
| `StreamHealth` | the reports (`getAggregateHealth`, `getActiveStreamCount`), `main`'s monitoring, the life of the HTTP server as `main` sees it | `StreamManager` | `StreamProofs` |
| `ReconnectPolicy` | `src/util/ReconnectPolicy.cpp` | | `RtspSourceProofs` |
| `RtspSource` | `src/capture/RtspSource.cpp`, the counter of `PipelineHealth` | `ReconnectPolicy` | `RtspSourceProofs` |
| `WorkerSource` | a `StreamWorker` with its `RtspSource` inside | `RtspSource`, `StreamWorker`; implements `StreamWorker` | `RtspSourceProofs` |
| `PacketClock` | `src/util/PacketClock.cpp` | | `StreamPipelineProofs` |
| `HlsArchive` | what a stream's directory promises its readers (abstract) | | |
| `HlsMuxer` | `src/mux/HlsMuxer.cpp` | implements `HlsArchive` | `HlsMuxerProofs` |
| `StreamPipeline` | `processingLoop()` from the packet to the playlist | `PacketClock`, `HlsMuxer`; implements `HlsMuxer` | `StreamPipelineProofs` |
| `HttpServer` | `src/server/HttpServer.cpp` | | `HttpServerProofs` |
| `DetectionWorker` | `src/ai_inference/detection_worker.py`, `hls_reader.py` | | `DetectionPoolProofs` |
| `DetectionPool` | `src/ai_inference/worker_pool.py`, `__main__.py` | `DetectionWorker` | `DetectionPoolProofs` |
| `DetectionStore` | frames and rows, `HttpServer::queryDetectionFrame` | | `DetectionStoreProofs` |
| `Configuration` | `src/util/Config.cpp`, `include/streamer/Config.h`, `src/ai_inference/config.py`, and what is made of them | | `ConfigurationProofs` |

Three refinements tie the levels together: a worker with a real source
implements the worker with a contract (`ImplementsWorker`), the worker's loop
drives the muxer as the muxer's specification allows (`ImplementsMuxer`), and
the muxer keeps what the archive promises (`KeepsArchive`). By the first the
properties of `StreamWorker` and `StreamManager` hold of workers with their
sources, by the second those of `HlsMuxer` hold of what cameras send.

The `MC` modules give the constants small values. `PROJECT.json` "map" ties
every definition to the lines it translates.

### How state and actions correspond to the code

**StreamWorker.** Two threads act on a worker: the caller (`cpc`) and the
processing thread (`tpc`). Every load or store of an atomic, the write of
`rtspSource_` and every call that blocks is a step of its own; the code in
between touches nothing the other thread reads. `start()`, `stop()` and the
destructor may be called any number of times in any order one caller can
produce; that there is one caller at a time is how `main` uses the class.
`readPacket()` is seen through its contract: it gives up only when a shutdown
was requested or reconnecting is disabled, and then it does; `WorkerSource` is
checked, and for safety proved, to keep it (`ImplementsWorker`,
`SourceKeepsContract`). `rtspSource_` and `shutdown_requested_` are plain variables that another thread reads. The model takes their values as
they are in memory at each step: the loop makes opaque calls in every
iteration, so that no build keeps them in a register across one.

**StreamManager.** `ManagerNext` lets the main thread make the calls of
`StreamWorker` in the order of `runMultiStreamMode`, one at a time, while all
threads run; a worker's first `start()` is the only one. An exception out of
`start()` is a failed start. The order of the configuration is abstracted: a
loop takes what it has not visited in any order.

**StreamHealth.** Every load of a counter or a status is a step: a report is
made worker by worker (`ReportTotals`, `ReportActive`, `ReportStatus`,
`ReportStats`) by the listener thread, and at the end by `main`, while the
threads write packets (`recordPacketWritten`), fail and come up. Of the
counters `packets_written_` stands for all, which are handled alike. The report
that `main` logs every 500 ms is the same call on another thread and changes
nothing; it is left to the listener's. `main`'s scan is `ScanBegin`,
`ScanNext`, `ScanEnd`. Of the HTTP server it matters that no handler is running
after its `stop()`, which is `HttpServer`'s part (`ListenerIsSafe`).

**RtspSource** with **ReconnectPolicy.** One step of the thread is an
iteration's test or one blocking call, which begins and ends in steps of their
own so that the camera, the clock and `requestShutdown()` come in between. Time
passes in ticks of the loop's 100 ms sleep. `up` says that the camera answers
every request; `broken`, that it went away during this connection. `ahead`
compares the reconnect counter with the worker's copy, `counted` and `late`
are history. The delays keep their width: `Width` is the 32 of `uint32_t`, and
what wraps in the code wraps in the model. With reconnecting disabled lines
144-147 cannot be reached after a successful open, and are not in the model.

**WorkerSource** runs the two together: every step of `StreamWorker` but
`ReadPacket`, and in its place the loop of `RtspSource::readPacket()`. The
`requestShutdown()` of `stop()` reaches the object the thread works with, if
`stop()` finds one; each start makes a new object. It is one worker, since
workers share nothing.

**PacketClock.** One step is one call of `normalizePacket()`, with
`av_rescale_q` computed by its definition (round to nearest, halves away from
zero). `in` and `out` record the last call.

**StreamPipeline.** One step is a call that `processingLoop()` makes: a packet
is read, a discontinuity written if its connection is new, the packet
normalized and given to the muxer, whose own steps (rotation, playlists)
follow. A reconnect may be counted at any time, also before the first frame is
written. The timestamps of a connection begin at 0 and go on by `Steps`, which
may be negative; frames may lack a PTS or a DTS or have them crossed. Packets
of other streams are skipped after the marker is written, as in the code.

**HlsMuxer.** Every effect on the disk is a step, so that a crash or a reader
can come between any two: creating a segment file, each written frame, each
removal, each renamed playlist, and the sub-steps of rotation, cleanup and
`close()`. `disk` maps segment numbers to modification times, `live` and
`archive` are what the two playlists contain, `segments` is `segments_`. A
packet is its PTS distance from the previous one. File times are in
`file_clock`'s epoch and ages are cast to `int`, as the code does it
(`EpochShift`, `IntHalf`). `CanFail` names the calls that may fail in an
instance. A crash loses the memory and keeps the disk; `open()` then recovers
the files in any order (`directory_iterator` promises none). The scan may end
with an exception anywhere (`"scan"`, lines 94-97): `open()` goes on with what
it has found (`Scans`), numbers from there, and writes over what it has not.
The time of a file may be unreadable (`"stat"`, lines 88-90): its number counts,
and it gets no entry (`Timed`). The history variables `unseen` and `untimed`
are the files of these two kinds; the code keeps nothing of the sort.

**HttpServer.** The listener takes one connection at a time through accept,
recv, route, send and close. A request is how much of its line has arrived;
a response is its kind and whether it fits the client's socket buffer or
`send()` has to wait. When the thread cannot be created the exception unwinds
into the destructor, hence `stop()`. Connections still queued are reset by
`shutdown()`/`close()`. Of the handlers it matters only what they answer.

**DetectionWorker, DetectionPool.** Of a playlist only the last line matters,
and of a segment how many detections are left to store. The muxer appends, and
when it is opened again leaves any listed segment at the end (`HlsMuxer`'s
recovery). `stop()` waits a bounded time, then closes the connection under the
thread. The signal handler runs between any two steps of the main thread,
also inside `start()` or an earlier `stop()`. When a worker cannot be made
`running` is reset before the exception reaches `main()`, whose `pool.stop()`
therefore returns at once (`GiveUp`). Threads are daemons and end with the
process.

**DetectionStore.** A detection leaves an annotated frame, a raw frame and a
row, in that order, under a name that is the second and the type. Any of the
writes may fail unnoticed, the clock may pass between them, and the process
may be cut off and start over: it then takes up the last segment of the
playlist, which may be the one it was at (`pc` is `"again"`) or a later one.

**Configuration.** A file is chosen section by section, as it is read; each
step takes one section, fills in the defaults and makes the checks, or refuses
the file. The width of `uint32_t` and `uint16_t` is kept (`UIntSize`,
`PortSize`), and a negative number either becomes the default or wraps, which
depends on the version of yaml-cpp. The Python side is chosen as a list of
entries. Of each settings group only what another module assumes is kept.

## Runs

Ten runs pass; two show where code and documentation part.

| Run | Question | Bounds, and why they are enough |
|---|---|---|
| `stream_worker` | Does stop() or the destructor at any point of the thread, and start() after any end of it, keep the protocol, and come back? | 2 workers, one with reconnecting disabled; any number of restarts |
| `stream_manager` | Does a shutdown leave nothing although inactive workers are skipped, and does it end? What do the reports say meanwhile, is the last one final, and is the warning that all streams failed true, and given? | 2 workers: one can be skipped, failing, starting or writing while the other is stopped or counted; 1 packet counted per worker (`MaxWritten`): a report takes each counter as it is, so that a second packet adds nothing |
| `worker_source` | Do a worker and its source implement the worker with a contract, with its liveness? Is every new connection announced, a shutdown prompt, and does the stream resume after any outage? | one of two workers, with and without reconnecting; delays 2, 4, 6 ticks with jitter of half of that, `Width` 5 so that the product wraps within a few attempts, stale after more than 1 s of 2 ticks; outages of any length, any number of restarts; attempts saturate above `Width`, where the delay no longer changes |
| `pipeline` | Whatever timestamps a source sends, is the output muxable, increasing and without lasting offset; is the muxer driven as it may be; does every reconnect have its marker? | 5 frames with steps -1..2, with missing and crossed timestamps, time base 1/3 against 2 ticks, any number of reconnects: the clock remembers one packet; a segment lasts 2 ticks, so that 5 frames make up to 5 segments with any placement of the reconnects |
| `muxer` | Does the muxer know what it read of its directory, match it with its playlists, reuse no number but below one that its scan missed, and keep `HlsArchive`, over crashes, failed calls, partial scans and unreadable times? | 3 runs on one directory (a recovery of a recovery), numbers 0..2, 2 ticks of time, packets of half a segment or a whole one, live window 2; any part of the files is found, and any part of these readable |
| `muxer_retention` | Is nothing deleted early within one run, are durations sane? | 1 run, 4 ticks of time with retention 2, every call but those of `open()` failing, playlists cut off |
| `http_server` | Is the listener safe against start(), stop() and the destructor, are all connections closed, does everyone get a turn? | 2 clients (one is served while the other waits, leaves, comes back), backlog 2 |
| `detection_pool` | No segment twice, nothing stored after stop(), no lasting lag, an end after a signal? | 1 stream, 3 segments, 2 reopened muxers, 2 detections in a frame, a worker that cannot be made; streams meet only in the loops of the main thread, and the theorems hold for any number of them |
| `detection_store` | Does every row have its frames, and are they of its kind? | 2 frames of 2 detections of 2 types (every way names can collide), 2 seconds, 1 name whose write fails, 1 crash; types are symmetric, the invariants do not tell them apart |
| `config` | Does what runs have the settings that the other modules assume, and every enabled stream its worker? | up to 2 streams in each file (two can clash); settings missing, zero, negative, at and past their bounds, between the defaults of the others |
| `muxer_epoch` (violation) | Is a recovered segment kept for its retention (`Config.h:43`)? | 2 runs, no failures, epochs 43 ticks apart with a 5-bit `int`: 43 = 32 + 11 as 6437664000 s = 2^32 + 2142696704 s |
| `pipeline_growth` (violation) | Does a segment of a steady source end at its target (`HlsMuxer.h:46`)? | 8 frames, one per second against 4 ticks per second; a target of 8 ticks |

`CHECK_DEADLOCK FALSE` is set where the system does stop (a process that has
ended, a destroyed worker) or where a bound ends the exploration (packets,
segment numbers, time, runs). `worker_source` checks for deadlock.

What the properties say, at the place where the hazard is, stands before each
of them in its module. The ones that carry most:

- `NoLostShutdown`: `stop()` raises the flag and then looks at `rtspSource_`,
  the thread stores `rtspSource_` and then looks at the flag; one of the two
  sees the other, so that a `stop()` that joins never waits for a read nobody
  told to give up.
- `StopLeavesNoThread`: `StreamManager::stop()` skips workers in ERROR, IDLE or
  SHUTTING_DOWN, and is right to.
- `ImplementsWorker`: nothing is assumed of `readPacket()` as a whole, only
  that its blocking calls end; in the middle of any outage, attempt and wait it
  returns when it is told to, and not before. With it the liveness of `stop()`
  no longer rests on a contract.
- `ReportIsCurrent`: the total of a report lies between what had been written
  when it began and what has been when it ends, the figures of the single
  streams do not fall short of it, and it misses no stream that is active,
  although each number is loaded at another time.
- `LastReportIsFinal`, `NoReportOfTheDead`: the order in which `main` stops the
  server, the streams, and reports.
- `AllFailedIsTrue`, `AllFailedIsNoticed`: the warning given once, after a scan
  of workers that change under it.
- `ImplementsMuxer`: `HlsMuxer.h:49` demands packets normalized by
  `PacketClock`; that this is enough, for whatever a source sends, is what all
  properties of `HlsMuxer` rest on.
- `MarkersMatchSplices`: every reconnect is told to the players, and nothing
  else is; the marker is at most two segments ahead of the new connection's
  first frame (where it is, `SpliceIsMarked` below).
- `TracksDisk`, `PlaylistsCurrent`, `KeepsArchive`: disk, memory and both
  playlists through rotation, cleanup, failure and crash. A file that `open()`
  failed to read is left alone until a later `open()` reads it (`Lost`).
  `PlaylistsCurrent` looks at every step at which the muxer is not deleting or
  rewriting, so that it also says when the lists have caught up with a cleanup.
- `NumbersNeverReused`: a number is used again only in a run whose scan missed
  the newest file, and only until that run has reached its number. Without that
  exception it is `NumberingContinues`, which the code does not keep and which
  holds where scans are complete (theorem `NumberingAlwaysContinues`).
- `NoSilentSplice`: a discontinuity is written in front of the first packet of
  every new connection, whichever path closed the old one (with
  `enable_discontinuity_markers`, as by default).
- `StoppedStoresNothing`, `NoSegmentTwice`: although the thread may outlive
  `stop()`, and although a reopened muxer reorders the list.
- `RowsHaveFrames`, `ServesItsKind`: what the server finds for a row, although
  files of one second overwrite each other.
- `SettingsAreUsable`: what `PolicyAssumption` and `MuxerAssumption` say of the
  constants follows from the checks of `loadConfig()`, whichever of the three
  places a default comes from.

## Fairness

Fairness is weak for every thread that the scheduler runs, and only where a
liveness property needs it:

- `StreamWorker`: caller and thread are scheduled; `open()` and the muxer
  return (LibAV is given `stimeout`). A `readPacket()` is *not* assumed to
  return until its source was told to shut down: a camera may stay away for
  ever.
- `StreamHealth`: the main thread is scheduled, and the listener while it
  makes a report. Only `ShutdownCompletes` assumes that the cameras' threads
  are too; `AllFailedIsNoticed` does not. The signal and the requests of
  clients may never come.
- `WorkerSource`: caller, thread and clock go on, and the calls of LibAV end
  (`stimeout`); nothing is assumed of `readPacket()`. Strong fairness on
  `PacketRead` while the camera is up says that a camera which stays up does
  not end every one of its sessions before its first packet; without it the
  code, too, reconnects for ever. Only `StreamResumes` needs it.
- `HttpServer`: both threads are scheduled. Strong fairness on `Accept` says
  that `accept()` does not fail for ever while connections wait. Clients that
  read what they are sent (`Reading`) are an assumption of `StopReturns` and
  `EveryoneHasATurn`; see `SlowClientsDoNotStall` below.
- `DetectionPool`: the main thread is scheduled. Only `FollowsTheStream`
  assumes that the worker's thread is, and that its `ffmpeg`, which has a
  timeout of 10 s, returns.

## Proofs

The `...Proofs` modules hold theorems for every value of the constants that
the named assumptions of the modules allow (`ClockAssumption`,
`WorkerAssumption`, `HealthAssumption`, `PolicyAssumption`, `SourceAssumption`,
`MuxerAssumption`, `ServerAssumption`, `DetectionAssumption`,
`StoreAssumption`, `ConfigurationAssumption`). They say no more than the types
of the configuration, that there are finitely many streams (`HealthAssumption`:
the workers are a vector), and one fact of arithmetic that the provers do not
have, `2^Width > 0` (`PolicyAssumption`); `SettingsAreUsable` is why a
configuration that is accepted meets them. TLC evaluates these assumptions in
the runs. Each proof has the same outline: an inductive invariant `I` with
`Init => I` and `I /\ [Next]_vars => I'`, which TLC checked on the module's run
before it was proved, one lemma per group of actions, and then the properties
as consequences of `I` or of one step from it. Every safety property that a
passing run checks, invariant or action property, is stated by a theorem.

| Theorems | Inductive invariant, and what it adds to the properties |
|---|---|
| `ClockInvariant`, `AlwaysMuxable`, `OutputIncreases`, `ClockCatchesUp` | `ClockInv`: the two fields of the clock determine the last packet it emitted: DTS is `lastDts_`, PTS is the larger of the two. `MuxableOutput` alone is not inductive, as the correction of a PTS is not remembered in `lastPts_` |
| `ProtocolHolds`, `ShutdownNotLost`, `AlwaysJoined`, `IdleIsEmpty`, `ErrorIsOver` | `ProtocolInv`: for each worker what caller and thread may assume of each other. The lost-shutdown argument needs two facts from either side: the thread has its source before it first looks at the flag, and stop() has raised the flag before it looks for the source |
| `ManagerImplements`, `ManagerHolds`, `StopIsComplete`, `DestructorReleases`, `ProcessStopsClean` | `ManagerInv`: the workers already visited by the loop of stop() are stopped or have no running thread, and stay so. `ManagerSpec => Spec` of `StreamWorker` brings `ProtocolInv` with it |
| `PipelineDrivesClock`, `PipelineDrivesMuxer` | the refinements of `processingLoop()`: under the first all theorems of `PacketClock` apply to it; the second needs `ClockInv`, by which the distance between two emitted PTS is positive (`GapIsPositive`), and that the loop hands a packet to the clock (`PipeInv` is both) |
| `EveryReconnectIsTold` | `SpliceInv`: in one run the k-th closed segment has the number k - 1; a connection whose first frame is to come has its marker at the last closed segment or, when there is none, at the open one (`AtHand`); and each marked segment, and each segment a connection began in, has the other at most two away (`Owed`, `Told`). `MarkersMatchSplices` looks only at the moments between two packets; the invariant follows a marker through the rotation between it and the first frame |
| `HealthImplements`, `HealthHolds`, `ReportsReadTheLiving`, `WarningIsTrue` | `HealthInv`, on top of `ProtocolInv` and `ManagerInv`: where main is against the life of the server and the report in progress, and that the workers a scan has passed stay inactive. `HealthSpec => ManagerSpec` brings the rest |
| `TallyHolds`, `ReportsAreCurrent`, `NothingAfterTheLast` | `TallyInv`, on top of these: each figure of a report in progress against the workers it has passed (`Past`) and those to come. The total is the number of packets in the set `Packets(S)`, so that adding a worker to a total is a union of disjoint sets, and the bounds follow from inclusions of sets and `FiniteSetTheorems`, not from sums. For `main`'s last report `QuietInv` is needed besides: `stop()` leaves no worker active |
| `WorkerSourceHolds`, `SourceKeepsContract`, `NoWorkerSplicesSilently`, `WorkerStopsPromptly` | `WSInv`: `ContractInv` sets the source's place in its loop against the worker's thread, and its flag against the worker's `srcShutdown`; `ReadInv` is the source's own. The refinement is the safety half of `ImplementsWorker` |
| `BackoffStaysBounded` | `WaitInv`. The cap is applied to the remainder of the doubled delay modulo `2^Width`, so that the wrap which refutes `StaysAtMax` makes a wait shorter than meant and never longer than the maximum with its jitter (`WaitIsBounded`) |
| `ReadHolds`, `NoSpliceIsSilent`, `ReadGivesUpWhenTold`, `AtMostTwoLateCalls` | `ReadInv`: where the loop is against whether a connection is open, which connection the last packet came from, and how many blocking calls began after the request |
| `DirectoryHolds`, `DirectoryIsTracked`, `NumbersAreFresh`, `ScansHold`, `NumberingAlwaysContinues`, `MuxerKeepsArchive` | `DirectoryInv`: types, what holds in each phase, that no number on disk is above `highest`, that `index` is above every number that was seen, and that files on disk are those listed in memory, those `open()` failed to read and, during a cleanup, what the cleanup has yet to forget. `ScanInv`: where scans cannot fail nothing is unseen, and where times can be read nothing is without an entry. `TracksDisk` says nothing while the muxer is down or deletes; the invariant does, so that it comes back after a crash and a cleanup |
| `PlaylistsAreCurrent` | `PlaylistInv` besides: whenever memory and playlists differ, the muxer is on its way to rewrite both, live first; after a recovery both are rewritten before the first packet |
| `DurationsAreSane`, `NoDurationIsNegative` | `DurationInv` besides: the open segment has room for the packet it is given, `elapsed` is what was written to it since its first packet, and where a header or a frame could not be written the run ends with that segment |
| `RetentionHolds` | `AgeInv` besides: what the memory takes for a segment's time is the time on disk |
| `ServerHolds`, `ListenerOutlived`, `ConnectionsClosed` | `ServerInv`: the socket and the listener thread against where the owner is |
| `PoolHolds`, `StopEndsStoring`, `SegmentsTakenOnce` | `PoolInv`: a stopped worker has no connection, segments are taken in increasing order, and only started workers have a thread |
| `StoreHolds`, `RowsAlwaysHaveFrames`, `AlwaysServesItsKind` | `StoreInv`: what the loop has in hand at each of its steps (`HandInv`), that a file shows a detection of the type in its name and of no frame not yet taken (`FilesInv`), and that a row's file shows no earlier frame than the row (`RowsInv`). The last needs that frames are taken in order, also by a process that starts over |
| `ConfigHolds`, `AcceptedIsUsable`, `EveryWorkerKeepsItsPlace` | `ConfigInv`: what has been read at each step of `loadConfig()` passed the checks of its section (`SettingsInv`); the ids of an accepted list are different, so that no worker replaces another in the pool's index (`PoolInv`) |

Some theorems are stated under a condition that is named and discussed:

- `MuxerKeepsArchive` assumes that a playlist is not cut short
  (`"short"` not in `CanFail`); any other call may fail, the scan of the
  directory included. `NoPartialPlaylist` below is what happens otherwise.
- `NumberingAlwaysContinues` assumes that the scan cannot fail (`"scan"`),
  `NoDurationIsNegative` that headers and frames can be written (`"header"` and
  `"frame"`): what they state is refuted otherwise (`NumberingContinues`,
  `NoNegativeDuration` below), and `NumbersAreFresh` and `DurationsAreSane`,
  which assume nothing, say what is left.
- `PlaylistsAreCurrent` assumes that playlist writes succeed (`"playlist"` and
  `"short"` not in `CanFail`): a playlist whose write failed stays as it was
  until the next one. All other calls may fail, and the process may crash at
  any point.
- `RetentionHolds` assumes `OneEpoch`: file times and `std::time` count from
  one epoch, or the directory is not recovered, and times fit an `int`. The
  run `muxer_epoch` shows that the code as it is loses the property with
  recovery.
- `MuxableOutput` and the others of `PacketClock` hold for integers;
  timestamps near 2^63 are not considered.
- `PipelineDrivesClock` and `EveryReconnectIsTold` assume `AnySource` (the
  clock's specification admits every integer as a timestamp),
  `PipelineDrivesMuxer` besides that `Gaps` holds every
  positive distance: both only make the specification on the right-hand side as
  wide as the code is.

Model-checked only:

- liveness (`StopReturns`, `ShutdownCompletes`, `AllFailedIsNoticed`, the
  fairness half of `ImplementsWorker`, `StreamResumes`, `EveryoneHasATurn`,
  `FollowsTheStream`, `ShutdownEnds`): liveness under fairness, and ENABLED,
  are out of the prover's reach;
- the properties under "Disagreements" and the two runs that expect a
  violation: TLC refutes them; `RetentionHolds`, `NumberingAlwaysContinues` and
  `NoDurationIsNegative` prove three of them under conditions that exclude what
  refutes them;
- `TypeOK` of each module is part of its inductive invariant where the module
  has proofs, and is not a run's property. No module declares a RECURSIVE
  operator.

## Disagreements

What a comment, a document or a test says of the program, and what the code
does instead, as the models show it. Two are runs:

| Run | Says | Does |
|---|---|---|
| `muxer_epoch` | `Config.h:43`: "keep this many hours of archived segments" | the time of a recovered file counts from 2174 (`file_clock`), `std::time` from 1970; the difference, cast to `int`, makes every recovered segment 68 years old, and the first cleanup after a restart deletes them all |
| `pipeline_growth` | `HlsMuxer.h:46`: "If packet duration would exceed segment target, a new segment is started first" | after a reconnect to a source that begins its timestamps again at 0, as FFmpeg gives them for RTSP, the clock moves one tick of 1/90000 s per frame until the source has caught up with its former uptime; all those frames go into one segment |

The others are defined at the end of their modules, under "What a comment, a
doc or a test says", and TLC refutes each under the constants of the module's
run (or those given here); they are small enough not to be kept as runs.

| Property | Says | Does |
|---|---|---|
| `RunningMeansProcessing` (`StreamWorker`) | `StreamWorker.h:46`: RUNNING is "Active and processing packets" | when a read or a write fails the thread leaves its loop and ends with the status still RUNNING; `/api/health` and `/api/streams` go on counting the stream, and the warning that all streams failed is not given |
| `NumberingContinues` (`HlsMuxer`) | `HlsMuxer.cpp:62-63`: the recovery "allows segment numbering to continue across stream restarts" | when `directory_iterator` raises an exception `open()` goes on with what it has found (lines 94-97, "Not fatal; just start from 0"), and the new run writes over the files it has not |
| `NoNegativeDuration` (`HlsMuxer`, under the constants of `muxer_retention`) | `HlsMuxer.h:18-19`: a segment has the "PTS of first packet" and the "PTS of last packet" | `writePacket()` takes the new start before the header is written (lines 189-191); when that fails, or the first frame does, `close()` records the new start with the old end, a negative duration |
| `RestartIsMarked` (`HlsMuxer`, under the constants of `muxer_epoch`) | `HlsMuxer.cpp:114`: "Mark that next segment should have discontinuity" | `writeDiscontinuity()` marks the last closed segment, which is the last recovered one |
| `SpliceIsMarked` (`StreamPipeline`) | `docs/http-api.md:227`: the playlist has markers "after reconnects" | for the same reason the marker stands one or two segments before the one in which the new connection begins |
| `LegacyStreamRuns` (`Configuration`) | `Config.h:89`: "Supports both", the legacy single-stream format | its section is read and checked, and no worker is made of it; the process serves no stream |
| `OneWriterPerDirectory` (`Configuration`) | `Config.h:13`: "Per-stream HLS output directory" | two streams may have the same |
| `EveryWorkerIsFound` (`Configuration`) | `Config.h:11`: a name is a "Stream identifier" | two streams may have the same, and `getStream()` finds the first |
| `RetentionFits` (`Configuration`) | `Config.h:43`: "keep this many hours of archived segments" | the seconds are computed in an `int` (`HlsMuxer.cpp:407`), which overflows above 596523 hours |
| `MissingPtsStaysMissing` (`PacketClock`) | `tests/unit/test_packet_clock.cpp:62` asserts that a missing PTS stays missing | it is synthesised |
| `ShuttingDownIsShown` (`StreamWorker`) | `StreamWorker.h:49`: SHUTTING_DOWN is "Graceful shutdown in progress" | a thread still initialising stores RUNNING over it |
| `StartReportsInit` (`StreamWorker`) | `StreamWorker.h:59`: start() returns false if "initialization fails" | it looks once, after 100 ms |
| `OutageCountedOnce` (`RtspSource`) | `docs/http-api.md:552`: "Number of times RTSP connection was re-established" | an outage counts once when it is noticed and again whenever the source is still stale |
| `StaysAtMax` (`ReconnectPolicy`, of `PolicySpec`) | `tests/unit/test_reconnect_policy.cpp:41`: "Stays at max" | with 1000 ms the product wraps in `uint32_t` at attempts 29 to 31, as 1000 * 2^29 = 125 * 2^32, and the delay is 0 for three attempts; in `worker_source` the same happens at attempt 4, as 2 * 2^4 = 2^5 |
| `LiveShowsNewest` (`HlsMuxer`) | `HlsMuxer.cpp:383`: "most recent segments" | after a recovery the order is that of `directory_iterator` |
| `SequenceIsFirstIndex` (`HlsMuxer`) | `HlsMuxer.cpp:537`: MEDIA-SEQUENCE is the "index of first segment" | it is a position in the list, and goes back when old segments are deleted |
| (no property; `TooOld`) | `HlsMuxer.cpp:421`: "older than 2 hours (7200 seconds) OR older than retention policy" | both have to be passed (line 422) |
| `NoPartialPlaylist` (`HlsMuxer`, with `"short"` in `CanFail`) | `HlsMuxer.cpp:497`: "rename atomically to avoid partial reads" | a write cut off by a full disk is renamed all the same |
| `SlowClientsDoNotStall` (`HttpServer`, with `Reading <- MCNone`) | `HttpServer.cpp:225`: a slow client "cannot stall the server indefinitely" | there is no timeout for `send()` |
| `ReadsWholeRequest` (`HttpServer`) | `HttpServer.h:85`: "Read HTTP request until blank line" | `recv()` is called once, and a request line in two pieces is refused |
| `StopIsHeard` (`DetectionPool`) | `detection_worker.py:173`: "Stop worker thread gracefully." | a thread that has not yet begun sets `running` again |
| `NothingDropped` (`DetectionPool`) | `docs/design.md:664`: "Graceful shutdown of all workers and database connections" | the connection is closed under a thread that still waits for a frame |
| `ServesItsDetection` (`DetectionStore`) | `docs/http-api.md:732`: the image shows "all detections in that frame" | detections of one second and type share a file |
| `RawAvailable` (`DetectionStore`) | `detection_worker.py:147`: "always available now" | a failed `imwrite()` is not noticed |

## What is left out

- **Queries**: the two SQL reports of the server, which read and change
  nothing, and the text of all answers (JSON, HTML).
- **`PipelineHealth`** but for the reconnect counter and `packets_written_`:
  the others are counters with one writer, handled alike, or times that are
  displayed only.
- **`Logger`, `StreamCopyPlanner`, `Detector`, `FrameAnnotator`, `search_api`,
  the web pages**: no state that changes, or not reached by the program.
- **Data**: the content of packets, images and responses, names and paths. A
  codec, a file name or an HTML page does not matter to the properties.
- **Libraries**: LibAV, sockets, SQLite and `ffmpeg` are modelled by how the
  code uses them (they block, fail or succeed). `lastError_`, text that only
  log lines show, is written by the thread and read by `main` after a failed
  start, when the thread is over (`ErrorMeansOver`).
- **Dead code**: `HlsMuxer::handleStreamRestart()`, the KeyboardInterrupt
  branch of `__main__.py`, `max_concurrent_connections`, the deletion of rows.
- **Known limits of the models**: a row whose frame could not be written, and
  the second row of a detection that a restarted worker makes again, are what
  the code does and no property speaks of them; a detection process that starts
  over does not go back to a segment older than the last one it took, which
  would need a whole restart, and a list reordered meanwhile, within one second;
  what workers that a failed start leaves running have stored when the process
  ends is not looked at; the time base does not change with a
  reconnect (RTP clocks H.264 at 90000 everywhere); a detection that a failed
  insert loses is not told apart from one not made; a report loads activity and
  error of a worker separately, so that one stream may be counted as both,
  which no property excludes; `max_streams` and the other resource limits are
  read and never enforced; a value of the wrong type silently becomes its
  default, as if it were missing; paths are not modelled, so that an
  `hls_output` without a final slash, which `HttpServer` joins to a file name,
  is not seen.

## Plan

Order of the work: the protocol between threads first (`StreamWorker`,
`StreamManager`), then what is on disk (`HlsMuxer`), what is read
(`RtspSource`, `PacketClock`), what is served (`HttpServer`), the second
process (`DetectionPool`, `DetectionStore`), and then what ties them together
(`WorkerSource`, `StreamPipeline`, `StreamHealth`, `Configuration`). All of
these are modelled and checked. Next, most important first:

1. `HlsMuxer` with its readers: `HlsArchive` as what `DetectionWorker` and the
   handlers of `HttpServer` rely on, instead of a playlist of their own; a
   client that reads a list while a cleanup deletes.
2. `StreamHealth` with `HttpServer`: the listener's handlers inside its
   connections, and the SQL reports next to a writer in another process.
3. Proofs: the theorems of `HlsMuxer` inside `StreamPipeline`, which
   `PipelineDrivesMuxer` makes applicable, stated there by name; the refinement
   of the reports by an abstract, atomic report; and those of the models that
   the points above add.
