--------------------------- MODULE Configuration ---------------------------
(***************************************************************************)
(* What the two processes read when they start: loadConfig                 *)
(* (src/util/Config.cpp) with the checks of main and the StreamWorkers     *)
(* that StreamManager makes of it, and load_config                         *)
(* (src/ai_inference/config.py) with the workers that the pool makes of    *)
(* it.  The other modules assume something of the settings; here is where  *)
(* it has to come from, out of defaults in three places, the file, and     *)
(* checks that run only for the sections the file has.                     *)
(*                                                                         *)
(* What a file says is chosen section by section, as it is read.           *)
(***************************************************************************)
EXTENDS Integers, Sequences, FiniteSets

CONSTANTS
    Absent,         \* a setting that is not in the file, or not of its type
    Names, Urls, Dirs,
    StreamNodes,    \* the entries that "streams" may have,
    RtspNodes, ReconnectNodes, HlsNodes, Ports,     \* ... other sections,
    InferenceNodes, \* ... and the entries of the inference's "streams"
    UIntSize, PortSize, \* how many numbers a uint32_t, a uint16_t has
    MaxStreams      \* bound: streams in a file

ASSUME ConfigurationAssumption ==
    /\ Absent \notin Int \union Names \union Urls \union Dirs
    /\ StreamNodes \subseteq [name : Names \union {Absent}, url : Urls \union {Absent},
                              dir : Dirs \union {Absent}, reconnect : ReconnectNodes]
    /\ RtspNodes \subseteq [url : Urls \union {Absent}, legal : BOOLEAN,
                            reconnect : ReconnectNodes]
    /\ ReconnectNodes \subseteq
           [{"initial", "max", "jitter", "stale"} -> Int \union {Absent}] \union {Absent}
    /\ HlsNodes \subseteq
           [{"duration", "retention", "interval"} -> Int \union {Absent}] \union {Absent}
    /\ Ports \subseteq Int \union {Absent}
    /\ UIntSize \in Nat /\ UIntSize > 30000 /\ PortSize \in Nat /\ PortSize > 8000
    /\ MaxStreams \in Nat

VARIABLES
    step,       \* what loadConfig reads next, or how main went on
    config,     \* AppConfig, as far as the program uses it
    workers,    \* workers_ of the StreamManager
    accepted,   \* the streams of AiInferenceConfig; Absent until loaded
    entry,      \* how many of them start() has gone through
    pool        \* workers of the DetectionWorkerPool, by stream_id

vars == <<step, config, workers, accepted, entry, pool>>
streamer == <<step, config, workers>>
inference == <<accepted, entry, pool>>
-----------------------------------------------------------------------------
(* yaml-cpp's as<T>(fallback): a value that is missing or not a T becomes  *)
(* the fallback; whether a negative number is one of an unsigned type or   *)
(* wraps around depends on the version.                                    *)
As(value, fallback) == IF value = Absent THEN fallback ELSE value

AsUnsigned(value, fallback, size) ==
    IF value = Absent \/ value >= size THEN {fallback}
    ELSE IF value < 0 THEN {fallback, value % size}
    ELSE {value}

DefaultDir(name) == <<"segments", name>>

DefaultReconnect == [initial |-> 1000, max |-> 30000, jitter |-> 15, stale |-> 10]

Reconnects(node) ==
    IF node = Absent THEN {DefaultReconnect}
    ELSE [initial : AsUnsigned(node.initial, 1000, UIntSize),
          max : AsUnsigned(node.max, 30000, UIntSize),
          jitter : AsUnsigned(node.jitter, 15, UIntSize),
          stale : AsUnsigned(node.stale, 10, UIntSize)]

(* Wrong: the two delays are compared only if the file has both.           *)
ReconnectLegalIfGiven(node, r) ==
    node # Absent =>
        /\ r.initial > 0 /\ r.jitter <= 100 /\ r.stale > 0
        /\ node.max # Absent /\ node.initial # Absent => r.max >= r.initial

ReconnectLegal(node, r) ==
    node # Absent =>
        r.initial > 0 /\ r.max >= r.initial /\ r.jitter <= 100 /\ r.stale > 0

DefaultHls == [duration |-> 3, retention |-> 2, interval |-> 300]

Hls(node) ==
    IF node = Absent THEN DefaultHls
    ELSE [duration |-> As(node.duration, 3), retention |-> As(node.retention, 2),
          interval |-> As(node.interval, 300)]

HlsLegal(hls) == hls.duration > 0 /\ hls.retention > 0 /\ hls.interval > 0
-----------------------------------------------------------------------------
(* loadConfig; an exception ends the process before anything was started.  *)
Refuse == step' = "refused" /\ UNCHANGED <<config, workers, inference>>

(* The file cannot be read, is not a map, or has neither section.          *)
LoadFile ==
    /\ step = "file"
    /\ \/ Refuse
       \/ /\ step' \in {"streams", "rtsp"}
          /\ UNCHANGED <<config, workers, inference>>

ReadStream ==
    /\ step = "streams" /\ Len(config.streams) < MaxStreams
    /\ \E node \in StreamNodes : \E r \in Reconnects(node.reconnect) :
        IF node.name # Absent /\ node.url # Absent /\ ReconnectLegal(node.reconnect, r)
           THEN /\ config' = [config EXCEPT !.streams = Append(@,
                       [name |-> node.name, url |-> node.url,
                        dir |-> As(node.dir, DefaultDir(node.name)),
                        reconnect |-> r])]
                /\ UNCHANGED <<step, workers, inference>>
           ELSE Refuse

StreamsRead ==
    /\ step = "streams" /\ config.streams # <<>>
    /\ step' = "hls"
    /\ UNCHANGED <<config, workers, inference>>

(* The legacy section; "legal" stands for its transport and its timeout.   *)
ReadRtsp ==
    /\ step = "rtsp"
    /\ \E node \in RtspNodes : \E r \in Reconnects(node.reconnect) :
        IF node.url # Absent /\ node.legal /\ ReconnectLegal(node.reconnect, r)
           THEN /\ config' = [config EXCEPT !.rtsp = node.url]
                /\ step' = "hls"
                /\ UNCHANGED <<workers, inference>>
           ELSE Refuse

ReadHls ==
    /\ step = "hls"
    /\ \E node \in HlsNodes :
        IF HlsLegal(Hls(node))
           THEN /\ config' = [config EXCEPT !.hls = Hls(node)]
                /\ step' = "http"
                /\ UNCHANGED <<workers, inference>>
           ELSE Refuse

ReadHttp ==
    /\ step = "http"
    /\ \E node \in Ports : \E port \in AsUnsigned(node, 8000, PortSize) :
        IF port # 0
           THEN /\ config' = [config EXCEPT !.port = port]
                /\ step' = "others"
                /\ UNCHANGED <<workers, inference>>
           ELSE Refuse

(* "resources" and "playback" are checked like the others; nothing that is *)
(* modelled depends on them.                                               *)
ReadOthers ==
    /\ step = "others"
    /\ \/ Refuse
       \/ step' = "loaded" /\ UNCHANGED <<config, workers, inference>>

(* main's check, and the StreamManager's createWorkers.                    *)
WorkerOf(s) ==
    [name |-> s.name, url |-> s.url, dir |-> s.dir, reconnect |-> s.reconnect,
     hls |-> config.hls]

createWorkers ==
    /\ step = "loaded"
    /\ IF config.streams = <<>> /\ config.rtsp = Absent
          THEN Refuse
          ELSE /\ workers' = [k \in DOMAIN config.streams |-> WorkerOf(config.streams[k])]
               /\ step' = "running"
               /\ UNCHANGED <<config, inference>>

getStream(name) ==
    LET named == {k \in DOMAIN workers : workers[k].name = name}
    IN  CHOOSE k \in named : \A j \in named : k <= j
-----------------------------------------------------------------------------
(* load_config, and the pool's start().                                    *)

Enabled(list) == {k \in DOMAIN list : list[k].enabled}

(* Wrong: two streams may have the same stream_id.                         *)
InferenceLegalTwice(list) ==
    /\ Enabled(list) # {}
    /\ \A k \in Enabled(list) : list[k].in # Absent /\ list[k].out # Absent

InferenceLegal(list) ==
    /\ Enabled(list) # {}
    /\ \A j, k \in DOMAIN list : list[j].id = list[k].id => j = k
    /\ \A k \in Enabled(list) : list[k].in # Absent /\ list[k].out # Absent

(* One that is not legal raises ValueError, and main() exits.              *)
load_config ==
    /\ accepted = Absent
    /\ \E n \in 1..MaxStreams : \E list \in [1..n -> InferenceNodes] :
        InferenceLegal(list) /\ accepted' = list
    /\ UNCHANGED <<streamer, entry, pool>>

StartPoolWorker ==
    /\ accepted # Absent /\ entry < Len(accepted)
    /\ entry' = entry + 1
    /\ pool' = IF accepted[entry'].enabled
                  THEN [i \in DOMAIN pool \union {accepted[entry'].id} |->
                           IF i = accepted[entry'].id THEN entry' ELSE pool[i]]
                  ELSE pool
    /\ UNCHANGED <<streamer, accepted>>
-----------------------------------------------------------------------------
Init ==
    /\ step = "file"
    /\ config = [streams |-> <<>>, rtsp |-> Absent, hls |-> DefaultHls, port |-> 8000]
    /\ workers = <<>>
    /\ accepted = Absent /\ entry = 0 /\ pool = <<>>

loadConfig ==
    \/ LoadFile \/ ReadStream \/ StreamsRead \/ ReadRtsp
    \/ ReadHls \/ ReadHttp \/ ReadOthers

Next == loadConfig \/ createWorkers \/ load_config \/ StartPoolWorker

Spec == Init /\ [][Next]_vars
-----------------------------------------------------------------------------
(* Whatever the file leaves out, misspells or gets wrong, and whichever    *)
(* default steps in: once streams run, their settings are what the rest of *)
(* the program takes for granted: a backoff that can grow, a jitter of at  *)
(* most the delay itself (PolicyAssumption of ReconnectPolicy), segments   *)
(* that end (MuxerAssumption of HlsMuxer), a port to listen at.            *)
SettingsAreUsable ==
    step = "running" =>
        /\ \A k \in DOMAIN workers :
               LET r == workers[k].reconnect
                   h == workers[k].hls
               IN  /\ 0 < r.initial /\ r.initial <= r.max /\ r.max < UIntSize
                   /\ r.jitter \in 0..100 /\ 0 < r.stale
                   /\ 0 < h.duration /\ 0 < h.retention /\ 0 < h.interval
        /\ config.port \in 1..(PortSize - 1)

(* The pool knows its workers by stream_id only: every enabled stream of   *)
(* an accepted file is watched by a worker that stop() will find, and no   *)
(* worker was put in the place of another, which nobody could stop.        *)
EveryStreamIsWatched ==
    accepted # Absent =>
        \A k \in Enabled(accepted) :
            k <= entry => accepted[k].id \in DOMAIN pool /\ pool[accepted[k].id] = k
-----------------------------------------------------------------------------
(* What a comment, a doc or a test says and the code does not do: TLC      *)
(* refutes each property below (README, "Disagreements").                  *)

(* Config.h:89: "Supports both: Legacy single-stream format (rtsp.url +    *)
(* hls settings)": its url is read, and no worker is made of it.           *)
LegacyStreamRuns == step = "running" => workers # <<>>

(* Config.h:13: "Per-stream HLS output directory".                         *)
OneWriterPerDirectory ==
    \A j, k \in DOMAIN workers : workers[j].dir = workers[k].dir => j = k

(* Config.h:11: "Stream identifier".                                       *)
EveryWorkerIsFound == \A k \in DOMAIN workers : getStream(workers[k].name) = k

(* Config.h:43: "keep this many hours of archived segments": the seconds   *)
(* are computed in an int (HlsMuxer.cpp:407), which holds those of 596523  *)
(* hours.                                                                  *)
RetentionFits == \A k \in DOMAIN workers : workers[k].hls.retention <= 596523
=============================================================================
