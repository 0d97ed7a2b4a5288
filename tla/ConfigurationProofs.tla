------------------------ MODULE ConfigurationProofs ------------------------
(***************************************************************************)
(* What comes out of loadConfig and load_config, for every file: SettingsInv*)
(* carries through the sections that every setting read so far is usable,  *)
(* be it the file's or a default, and PoolInv that the pool's index has    *)
(* the enabled streams that start() has gone through.                      *)
(***************************************************************************)
EXTENDS Configuration, SequenceTheorems, TLAPS

(* Settings that the rest of the program can work with.                    *)
UsableReconnect ==
    {r \in [initial : 1..(UIntSize - 1), max : 1..(UIntSize - 1), jitter : 0..100,
            stale : 1..(UIntSize - 1)] : r.initial <= r.max}

UsableStream ==
    [name : Names, url : Urls, dir : Dirs \union {DefaultDir(n) : n \in Names},
     reconnect : UsableReconnect]

UsableHls == [duration : Nat \ {0}, retention : Nat \ {0}, interval : Nat \ {0}]

UsableConfig ==
    [streams : Seq(UsableStream), rtsp : Urls \union {Absent}, hls : UsableHls,
     port : 1..(PortSize - 1)]

SettingsInv ==
    /\ config \in UsableConfig
    /\ step = "running" =>
        \A k \in DOMAIN workers : /\ workers[k].reconnect \in UsableReconnect
                                  /\ workers[k].hls \in UsableHls

(* Streams have ids of their own, and the index has those that were begun. *)
PoolInv ==
    /\ entry \in Nat
    /\ accepted = Absent => entry = 0
    /\ accepted # Absent =>
        /\ \A j, k \in DOMAIN accepted : accepted[j].id = accepted[k].id => j = k
        /\ \A k \in DOMAIN accepted : k \in Nat
    /\ EveryStreamIsWatched

ConfigInv == SettingsInv /\ PoolInv
-----------------------------------------------------------------------------
(* A number that as<unsigned>() gives fits its type.                       *)
LEMMA UnsignedFits ==
    ASSUME NEW size \in Nat, NEW fallback \in 0..(size - 1),
           NEW value \in Int \union {Absent}, NEW n \in AsUnsigned(value, fallback, size)
    PROVE  n \in 0..(size - 1)
<1>1. size > 0 /\ Absent \notin Int
  BY ConfigurationAssumption
<1>2. \A v \in Int, d \in Nat : d > 0 => v % d \in 0..(d - 1)
  OBVIOUS
<1>3. CASE value = Absent
  BY <1>3 DEF AsUnsigned
<1>4. CASE value \in Int
  BY <1>1, <1>2, <1>4 DEF AsUnsigned
<1>5. QED
  BY <1>3, <1>4

(* Whatever a "reconnect" section has or lacks, the settings are usable if *)
(* the checks let them pass; without the section nothing is checked.       *)
LEMMA ReconnectUsable ==
    ASSUME NEW node \in ReconnectNodes, NEW r \in Reconnects(node),
           ReconnectLegal(node, r)
    PROVE  r \in UsableReconnect
<1>1. UIntSize \in Nat /\ UIntSize > 30000
  BY ConfigurationAssumption
<1>2. CASE node = Absent
  BY <1>1, <1>2 DEF Reconnects, DefaultReconnect, UsableReconnect
<1>3. CASE node # Absent
  <2>1. /\ node.initial \in Int \union {Absent} /\ node.max \in Int \union {Absent}
        /\ node.jitter \in Int \union {Absent} /\ node.stale \in Int \union {Absent}
    BY <1>3, ConfigurationAssumption
  <2>2. r \in [initial : AsUnsigned(node.initial, 1000, UIntSize),
               max : AsUnsigned(node.max, 30000, UIntSize),
               jitter : AsUnsigned(node.jitter, 15, UIntSize),
               stale : AsUnsigned(node.stale, 10, UIntSize)]
    BY <1>3 DEF Reconnects
  <2>3. /\ r.initial \in 0..(UIntSize - 1) /\ r.max \in 0..(UIntSize - 1)
        /\ r.jitter \in 0..(UIntSize - 1) /\ r.stale \in 0..(UIntSize - 1)
    <3>1. /\ r.initial \in AsUnsigned(node.initial, 1000, UIntSize)
          /\ r.max \in AsUnsigned(node.max, 30000, UIntSize)
          /\ r.jitter \in AsUnsigned(node.jitter, 15, UIntSize)
          /\ r.stale \in AsUnsigned(node.stale, 10, UIntSize)
      BY <2>2
    <3>2. /\ 1000 \in 0..(UIntSize - 1) /\ 30000 \in 0..(UIntSize - 1)
          /\ 15 \in 0..(UIntSize - 1) /\ 10 \in 0..(UIntSize - 1)
      BY <1>1
    <3>3. \A f, v : f \in 0..(UIntSize - 1) /\ v \in Int \union {Absent} =>
                        \A n \in AsUnsigned(v, f, UIntSize) : n \in 0..(UIntSize - 1)
      BY <1>1, UnsignedFits
    <3>4. r.initial \in 0..(UIntSize - 1)
      BY <2>1, <3>1, <3>2, <3>3
    <3>5. r.max \in 0..(UIntSize - 1)
      BY <2>1, <3>1, <3>2, <3>3
    <3>6. r.jitter \in 0..(UIntSize - 1)
      BY <2>1, <3>1, <3>2, <3>3
    <3>7. r.stale \in 0..(UIntSize - 1)
      BY <2>1, <3>1, <3>2, <3>3
    <3>8. QED
      BY <3>4, <3>5, <3>6, <3>7
  <2>4. r.initial > 0 /\ r.max >= r.initial /\ r.jitter <= 100 /\ r.stale > 0
    BY <1>3 DEF ReconnectLegal
  <2>5. r = [initial |-> r.initial, max |-> r.max, jitter |-> r.jitter,
             stale |-> r.stale]
    BY <2>2
  <2>6. QED
    BY <1>1, <2>3, <2>4, <2>5 DEF UsableReconnect
<1>4. QED
  BY <1>2, <1>3

LEMMA HlsUsable ==
    ASSUME NEW node \in HlsNodes, HlsLegal(Hls(node))
    PROVE  Hls(node) \in UsableHls
<1>1. CASE node = Absent
  BY <1>1 DEF Hls, DefaultHls, UsableHls
<1>2. CASE node # Absent
  <2>1. /\ node.duration \in Int \union {Absent} /\ node.retention \in Int \union {Absent}
        /\ node.interval \in Int \union {Absent}
    BY <1>2, ConfigurationAssumption
  <2>2. /\ As(node.duration, 3) \in Int /\ As(node.retention, 2) \in Int
        /\ As(node.interval, 300) \in Int
    BY <2>1 DEF As
  <2>3. QED
    BY <1>2, <2>2 DEF Hls, HlsLegal, UsableHls
<1>3. QED
  BY <1>1, <1>2
-----------------------------------------------------------------------------
LEMMA ConfigInit == Init => ConfigInv
<1> SUFFICES ASSUME Init PROVE ConfigInv
  OBVIOUS
<1>1. DefaultHls \in UsableHls /\ 8000 \in 1..(PortSize - 1)
  BY ConfigurationAssumption DEF DefaultHls, UsableHls
<1>2. SettingsInv
  BY <1>1, EmptySeq DEF Init, SettingsInv, UsableConfig
<1>3. PoolInv
  BY DEF Init, PoolInv, EveryStreamIsWatched
<1>4. QED
  BY <1>2, <1>3 DEF ConfigInv

(* Sections that only lead on, and files that are refused.                 *)
LEMMA ReadingOn ==
    ASSUME ConfigInv, UNCHANGED <<config, workers, inference>>, step' # "running"
    PROVE  ConfigInv'
BY DEF ConfigInv, SettingsInv, PoolInv, EveryStreamIsWatched, Enabled, inference

LEMMA StreamKeeps == ASSUME ConfigInv, ReadStream PROVE ConfigInv'
<1>1. PICK node \in StreamNodes : \E r \in Reconnects(node.reconnect) :
        IF node.name # Absent /\ node.url # Absent /\ ReconnectLegal(node.reconnect, r)
           THEN /\ config' = [config EXCEPT !.streams = Append(@,
                       [name |-> node.name, url |-> node.url,
                        dir |-> As(node.dir, DefaultDir(node.name)),
                        reconnect |-> r])]
                /\ UNCHANGED <<step, workers, inference>>
           ELSE Refuse
  BY DEF ReadStream
<1>2. PICK r \in Reconnects(node.reconnect) :
        IF node.name # Absent /\ node.url # Absent /\ ReconnectLegal(node.reconnect, r)
           THEN /\ config' = [config EXCEPT !.streams = Append(@,
                       [name |-> node.name, url |-> node.url,
                        dir |-> As(node.dir, DefaultDir(node.name)),
                        reconnect |-> r])]
                /\ UNCHANGED <<step, workers, inference>>
           ELSE Refuse
  BY <1>1
<1>3. CASE Refuse
  BY <1>3, ReadingOn DEF Refuse
<1>4. CASE ~Refuse
  <2> DEFINE s == [name |-> node.name, url |-> node.url,
                   dir |-> As(node.dir, DefaultDir(node.name)), reconnect |-> r]
  <2>1. /\ node.name # Absent /\ node.url # Absent /\ ReconnectLegal(node.reconnect, r)
        /\ config' = [config EXCEPT !.streams = Append(@, s)]
        /\ UNCHANGED <<step, workers, inference>>
    BY <1>2, <1>4
  <2>2. /\ node.name \in Names /\ node.url \in Urls /\ node.dir \in Dirs \union {Absent}
        /\ node.reconnect \in ReconnectNodes
    BY <2>1, ConfigurationAssumption
  <2>3. r \in UsableReconnect
    BY <2>1, <2>2, ReconnectUsable
  <2>4. As(node.dir, DefaultDir(node.name)) \in Dirs \union {DefaultDir(n) : n \in Names}
    BY <2>2 DEF As
  <2>5. s \in UsableStream
    BY <2>2, <2>3, <2>4 DEF UsableStream
  <2> HIDE DEF s
  <2>6. Append(config.streams, s) \in Seq(UsableStream)
    BY <2>5, AppendProperties DEF ConfigInv, SettingsInv, UsableConfig
  <2>7. config' \in UsableConfig
    BY <2>1, <2>6 DEF ConfigInv, SettingsInv, UsableConfig
  <2>8. QED
    BY <2>1, <2>7 DEF ConfigInv, SettingsInv, PoolInv, EveryStreamIsWatched, Enabled, inference
<1>5. QED
  BY <1>3, <1>4

LEMMA SectionKeeps ==
    ASSUME ConfigInv, ReadRtsp \/ ReadHls \/ ReadHttp
    PROVE  ConfigInv'
<1>1. CASE Refuse
  BY <1>1, ReadingOn DEF Refuse
<1>2. CASE ~Refuse
  <2>1. UNCHANGED <<workers, inference>> /\ step' \in {"hls", "http", "others"}
    BY <1>2 DEF ReadRtsp, ReadHls, ReadHttp
  <2>2. config' \in UsableConfig
    <3>1. CASE ReadRtsp
      <4>1. PICK node \in RtspNodes :
                node.url # Absent /\ config' = [config EXCEPT !.rtsp = node.url]
        BY <1>2, <3>1 DEF ReadRtsp
      <4>2. node.url \in Urls
        BY <4>1, ConfigurationAssumption
      <4>3. QED
        BY <4>1, <4>2 DEF ConfigInv, SettingsInv, UsableConfig
    <3>2. CASE ReadHls
      <4>1. PICK node \in HlsNodes :
                HlsLegal(Hls(node)) /\ config' = [config EXCEPT !.hls = Hls(node)]
        BY <1>2, <3>2 DEF ReadHls
      <4>2. Hls(node) \in UsableHls
        BY <4>1, HlsUsable
      <4>3. QED
        BY <4>1, <4>2 DEF ConfigInv, SettingsInv, UsableConfig
    <3>3. CASE ReadHttp
      <4>1. PICK node \in Ports : \E port \in AsUnsigned(node, 8000, PortSize) :
                port # 0 /\ config' = [config EXCEPT !.port = port]
        BY <1>2, <3>3 DEF ReadHttp
      <4>2. PICK port \in AsUnsigned(node, 8000, PortSize) :
                port # 0 /\ config' = [config EXCEPT !.port = port]
        BY <4>1
      <4>3. /\ PortSize \in Nat /\ 8000 \in 0..(PortSize - 1)
            /\ node \in Int \union {Absent}
        BY ConfigurationAssumption
      <4>4. port \in 0..(PortSize - 1)
        BY <4>3, UnsignedFits
      <4>5. port \in 1..(PortSize - 1)
        BY <4>2, <4>3, <4>4
      <4>6. QED
        BY <4>2, <4>5 DEF ConfigInv, SettingsInv, UsableConfig
    <3>4. QED
      BY <3>1, <3>2, <3>3
  <2>3. QED
    BY <2>1, <2>2 DEF ConfigInv, SettingsInv, PoolInv, EveryStreamIsWatched, Enabled, inference
<1>3. QED
  BY <1>1, <1>2

LEMMA WorkersKeep == ASSUME ConfigInv, createWorkers PROVE ConfigInv'
<1>1. CASE Refuse
  BY <1>1, ReadingOn DEF Refuse
<1>2. CASE ~Refuse
  <2>1. /\ workers' = [k \in DOMAIN config.streams |-> WorkerOf(config.streams[k])]
        /\ UNCHANGED <<config, inference>>
    BY <1>2 DEF createWorkers
  <2>2. /\ config.streams \in Seq(UsableStream) /\ config.hls \in UsableHls
    BY DEF ConfigInv, SettingsInv, UsableConfig
  <2>3. ASSUME NEW k \in DOMAIN workers'
        PROVE  /\ workers'[k].reconnect \in UsableReconnect
               /\ workers'[k].hls \in UsableHls
    <3>1. config.streams[k] \in UsableStream
      BY <2>1, <2>2, <2>3, ElementOfSeq, LenProperties
    <3>2. /\ workers'[k].reconnect = config.streams[k].reconnect
          /\ workers'[k].hls = config.hls
      BY <2>1, <2>3 DEF WorkerOf
    <3>3. QED
      BY <2>2, <3>1, <3>2 DEF UsableStream
  <2>4. QED
    BY <2>1, <2>3 DEF ConfigInv, SettingsInv, PoolInv, EveryStreamIsWatched, Enabled, inference
<1>3. QED
  BY <1>1, <1>2

LEMMA LoadKeeps == ASSUME ConfigInv, load_config PROVE ConfigInv'
<1>1. PICK n \in 1..MaxStreams : \E list \in [1..n -> InferenceNodes] :
          InferenceLegal(list) /\ accepted' = list
  BY DEF load_config
<1>2. PICK list \in [1..n -> InferenceNodes] : InferenceLegal(list) /\ accepted' = list
  BY <1>1
<1>3. /\ \A j, k \in DOMAIN list : list[j].id = list[k].id => j = k
      /\ \A k \in DOMAIN list : k \in Nat /\ k > 0
  BY <1>2 DEF InferenceLegal
<1>4. entry = 0 /\ UNCHANGED <<streamer, entry, pool>>
  BY DEF load_config, ConfigInv, PoolInv
<1>5. EveryStreamIsWatched'
  BY <1>2, <1>3, <1>4 DEF EveryStreamIsWatched, Enabled
<1>6. QED
  BY <1>2, <1>3, <1>4, <1>5 DEF ConfigInv, SettingsInv, PoolInv, streamer

(* A worker is put at its own place in the index: ids are unique.          *)
LEMMA PoolWorkerKeeps == ASSUME ConfigInv, StartPoolWorker PROVE ConfigInv'
<1>1. /\ accepted # Absent /\ entry' = entry + 1 /\ entry \in Nat
      /\ UNCHANGED <<streamer, accepted>>
      /\ \A j, k \in DOMAIN accepted : accepted[j].id = accepted[k].id => j = k
      /\ \A k \in DOMAIN accepted : k \in Nat
  BY DEF StartPoolWorker, ConfigInv, PoolInv
<1>2. ASSUME NEW k \in Enabled(accepted), k <= entry'
      PROVE  accepted[k].id \in DOMAIN pool' /\ pool'[accepted[k].id] = k
  <2>1. k \in DOMAIN accepted /\ accepted[k].enabled
    BY DEF Enabled
  <2>2. CASE k = entry'
    BY <2>1, <2>2 DEF StartPoolWorker
  <2>3. CASE k # entry'
    <3>1. k <= entry
      BY <1>1, <1>2, <2>1, <2>3
    <3>2. accepted[k].id \in DOMAIN pool /\ pool[accepted[k].id] = k
      BY <1>1, <1>2, <3>1 DEF ConfigInv, PoolInv, EveryStreamIsWatched
    <3>3. CASE accepted[entry'].enabled
      <4>1. entry' \in DOMAIN accepted => accepted[k].id # accepted[entry'].id
        BY <1>1, <2>1, <2>3
      <4>2. entry' \in DOMAIN accepted
        BY <1>1 DEF StartPoolWorker, ConfigInv, PoolInv
      <4>3. QED
        BY <3>2, <3>3, <4>1, <4>2 DEF StartPoolWorker
    <3>4. CASE ~accepted[entry'].enabled
      BY <3>2, <3>4 DEF StartPoolWorker
    <3>5. QED
      BY <3>3, <3>4
  <2>4. QED
    BY <2>2, <2>3
<1>3. EveryStreamIsWatched'
  BY <1>1, <1>2 DEF EveryStreamIsWatched, Enabled
<1>4. QED
  BY <1>1, <1>3 DEF ConfigInv, SettingsInv, PoolInv, streamer

(* What has been read is usable, and who was started is indexed, for every *)
(* file and at every point of reading it.                                  *)
THEOREM ConfigHolds == Spec => []ConfigInv
<1>1. ASSUME ConfigInv, LoadFile \/ StreamsRead \/ ReadOthers
      PROVE  ConfigInv'
  BY <1>1, ReadingOn DEF LoadFile, StreamsRead, ReadOthers, Refuse
<1>2. ASSUME ConfigInv, UNCHANGED vars
      PROVE  ConfigInv'
  BY <1>2 DEF vars, ConfigInv, SettingsInv, PoolInv, EveryStreamIsWatched, Enabled
<1>3. ConfigInv /\ [Next]_vars => ConfigInv'
  BY <1>1, <1>2, StreamKeeps, SectionKeeps, WorkersKeep, LoadKeeps, PoolWorkerKeeps
     DEF Next, loadConfig
<1>4. QED
  BY <1>3, ConfigInit, PTL DEF Spec

(* SettingsAreUsable: no file that is accepted gives the streams settings  *)
(* outside what PolicyAssumption and MuxerAssumption take for granted.     *)
THEOREM AcceptedIsUsable == Spec => []SettingsAreUsable
<1>1. ConfigInv => SettingsAreUsable
  <2> SUFFICES ASSUME ConfigInv, step = "running"
               PROVE  /\ \A k \in DOMAIN workers :
                            LET r == workers[k].reconnect
                                h == workers[k].hls
                            IN  /\ 0 < r.initial /\ r.initial <= r.max /\ r.max < UIntSize
                                /\ r.jitter \in 0..100 /\ 0 < r.stale
                                /\ 0 < h.duration /\ 0 < h.retention /\ 0 < h.interval
                      /\ config.port \in 1..(PortSize - 1)
    BY DEF SettingsAreUsable
  <2>1. /\ UIntSize \in Nat /\ config \in UsableConfig
        /\ \A k \in DOMAIN workers : /\ workers[k].reconnect \in UsableReconnect
                                     /\ workers[k].hls \in UsableHls
    BY ConfigurationAssumption DEF ConfigInv, SettingsInv
  <2>2. \A r \in UsableReconnect : /\ 0 < r.initial /\ r.initial <= r.max
                                   /\ r.max < UIntSize /\ r.jitter \in 0..100
                                   /\ 0 < r.stale
    BY <2>1 DEF UsableReconnect
  <2>3. \A h \in UsableHls : 0 < h.duration /\ 0 < h.retention /\ 0 < h.interval
    BY DEF UsableHls
  <2>4. QED
    BY <2>1, <2>2, <2>3 DEF UsableConfig
<1>2. QED
  BY <1>1, ConfigHolds, PTL

(* EveryStreamIsWatched: no worker of the pool takes another's place.      *)
THEOREM EveryWorkerKeepsItsPlace == Spec => []EveryStreamIsWatched
<1>1. ConfigInv => EveryStreamIsWatched
  BY DEF ConfigInv, PoolInv
<1>2. QED
  BY <1>1, ConfigHolds, PTL
=============================================================================
