------------------------ MODULE StreamPipelineProofs ------------------------
(***************************************************************************)
(* What PacketClock guarantees for every time base, every set of source    *)
(* timestamps and any number of packets: well-typed state, a muxable       *)
(* packet out of every call, and strictly increasing timestamps.  The      *)
(* argument rests on EmittedIsRemembered: the PTS that went out last is    *)
(* the larger of lastPts_ and lastDts_, and both clamps start from these.  *)
(* StreamPipeline's loop calls the clock as PacketClock says, so that all  *)
(* of it holds there too, and it drives the muxer as HlsMuxer says.        *)
(* Last, the markers of the reconnects: SpliceInv follows a marker from    *)
(* writeDiscontinuity to the segment of the connection's first frame.      *)
(***************************************************************************)
EXTENDS StreamPipeline, SequenceTheorems, FiniteSetTheorems, TLAPS

(* Rescaling an integer timestamp gives an integer: the source time base   *)
(* has a positive denominator.                                             *)
LEMMA RescaleType == \A x \in Int : Rescale(x) \in Int
<1> SUFFICES ASSUME NEW x \in Int PROVE Rescale(x) \in Int
  OBVIOUS
<1> DEFINE scaled == 2 * x * TbNum * OutTb
<1>1. TbDen \in Nat \ {0} /\ scaled \in Int
  BY ClockAssumption
<1>2. 2 * TbDen \in Nat \ {0}
  BY <1>1
<1> HIDE DEF scaled
<1>3. \A d \in Nat \ {0}, e \in Int : e \div d \in Int
  OBVIOUS
<1>4. (scaled + TbDen) \div (2 * TbDen) \in Int
  BY <1>1, <1>2, <1>3
<1>5. (TbDen - scaled) \div (2 * TbDen) \in Int
  BY <1>1, <1>2, <1>3
<1>6. Rescale(x) = IF x >= 0 THEN (scaled + TbDen) \div (2 * TbDen)
                             ELSE -((TbDen - scaled) \div (2 * TbDen))
  BY DEF Rescale, scaled
<1>7. QED
  BY <1>4, <1>5, <1>6

(* The invariant: the type invariant and the relation between the clock's  *)
(* fields and the packet that went out last.                               *)
ClockInv == TypeOK /\ EmittedIsRemembered

LEMMA InitInv == Init => ClockInv
  BY ClockAssumption
  DEF Init, ClockInv, TypeOK, EmittedIsRemembered, NoPacket, Packet

(* One call of normalizePacket, with the timestamps it computes named.     *)
LEMMA CallEffect ==
    ASSUME TypeOK,
           NEW pkt \in Packet(Stamps \union {NoPts}),
           normalizePacket(pkt)
    PROVE  /\ lastPts' \in Int /\ lastDts' \in Int
           /\ lastPts # NoPts => lastPts' > lastPts
           /\ lastDts # NoPts => lastDts' > lastDts
           /\ out' = [pts |-> LiftPts(lastPts', lastDts'), dts |-> lastDts']
           /\ in' = pkt
           /\ packets' = packets + 1 /\ packets < MaxPackets
<1> DEFINE ptsIn == PtsOf(pkt)
           pts   == Clamp(ptsIn, lastPts)
           dtsIn == IF pkt.dts = NoPts THEN pts ELSE Rescale(pkt.dts)
           dts   == Clamp(dtsIn, lastDts)
<1>1. lastPts' = pts /\ lastDts' = dts
  BY DEF normalizePacket
<1>2. pkt.pts \in Int \union {NoPts} /\ pkt.dts \in Int \union {NoPts}
  BY ClockAssumption DEF Packet
<1>3. ptsIn \in Int
  BY <1>2, RescaleType, ClockAssumption DEF PtsOf, TypeOK
<1>4. \A t \in Int, last \in Int \union {NoPts} :
          /\ Clamp(t, last) \in Int
          /\ last # NoPts => Clamp(t, last) > last
  BY DEF Clamp
<1> HIDE DEF ptsIn
<1>5. pts \in Int /\ (lastPts # NoPts => pts > lastPts)
  BY <1>3, <1>4 DEF TypeOK
<1> HIDE DEF pts
<1>6. dtsIn \in Int
  BY <1>2, <1>5, RescaleType
<1> HIDE DEF dtsIn
<1>7. dts \in Int /\ (lastDts # NoPts => dts > lastDts)
  BY <1>4, <1>6 DEF TypeOK
<1>8. /\ out' = [pts |-> LiftPts(lastPts', lastDts'), dts |-> lastDts']
      /\ in' = pkt /\ packets' = packets + 1 /\ packets < MaxPackets
  BY DEF normalizePacket
<1>9. QED
  BY <1>1, <1>5, <1>7, <1>8

LEMMA StepInv == ClockInv /\ [Next]_vars => ClockInv'
<1> SUFFICES ASSUME ClockInv, [Next]_vars PROVE ClockInv'
  OBVIOUS
<1>1. CASE Next
  <2>1. PICK pkt \in Packet(Stamps \union {NoPts}) : normalizePacket(pkt)
    BY <1>1 DEF Next
  <2>2. /\ lastPts' \in Int /\ lastDts' \in Int
        /\ out' = [pts |-> LiftPts(lastPts', lastDts'), dts |-> lastDts']
        /\ in' = pkt
        /\ packets' = packets + 1 /\ packets < MaxPackets
    BY <2>1, CallEffect DEF ClockInv
  <2>3. TypeOK'
    <3>1. LiftPts(lastPts', lastDts') \in Int
      BY <2>2 DEF LiftPts
    <3>2. out' \in Packet(Int \union {NoPts})
      BY <2>2, <3>1 DEF Packet
    <3>3. packets' \in 0..MaxPackets
      BY <2>2, ClockAssumption DEF ClockInv, TypeOK
    <3>4. QED
      BY <2>2, <3>2, <3>3 DEF TypeOK
  <2>4. EmittedIsRemembered'
    <3>1. packets' > 0 /\ packets' # 0
      BY <2>2 DEF ClockInv, TypeOK
    <3>2. lastPts' # NoPts /\ lastDts' # NoPts
      BY <2>2, ClockAssumption
    <3>3. QED
      BY <2>2, <3>1, <3>2 DEF EmittedIsRemembered
  <2>5. QED
    BY <2>3, <2>4 DEF ClockInv
<1>2. CASE UNCHANGED vars
  BY <1>2 DEF vars, ClockInv, TypeOK, EmittedIsRemembered
<1>3. QED
  BY <1>1, <1>2

(* Type correctness and EmittedIsRemembered hold in every reachable state. *)
THEOREM ClockInvariant == Spec => []ClockInv
<1>1. Init => ClockInv
  BY InitInv
<1>2. ClockInv /\ [Next]_vars => ClockInv'
  BY StepInv
<1>3. QED
  BY <1>1, <1>2, PTL DEF Spec

(* Every packet that normalizePacket hands to the muxer has both its       *)
(* timestamps and a PTS that is not before its DTS.                        *)
THEOREM AlwaysMuxable == Spec => []MuxableOutput
<1>1. ClockInv => MuxableOutput
  <2> SUFFICES ASSUME ClockInv, packets > 0 PROVE MuxableOutput
    BY DEF MuxableOutput
  <2>1. lastPts \in Int /\ lastDts \in Int
    BY DEF ClockInv, TypeOK, EmittedIsRemembered
  <2>2. out.pts = LiftPts(lastPts, lastDts) /\ out.dts = lastDts
    BY DEF ClockInv, EmittedIsRemembered
  <2>3. QED
    BY <2>1, <2>2 DEF MuxableOutput, LiftPts
<1>2. QED
  BY <1>1, ClockInvariant, PTL

(* Both output timestamps increase at every call, for every sequence of    *)
(* source timestamps.                                                      *)
THEOREM OutputIncreases == Spec => StrictlyIncreasing
<1> DEFINE Rises == packets > 0 => out'.pts > out.pts /\ out'.dts > out.dts
<1>1. ClockInv /\ [Next]_vars => [Rises]_vars
  <2> SUFFICES ASSUME ClockInv, Next, packets > 0 PROVE Rises
    BY DEF Rises
  <2>1. PICK pkt \in Packet(Stamps \union {NoPts}) : normalizePacket(pkt)
    BY DEF Next
  <2>2. /\ lastPts \in Int /\ lastDts \in Int
        /\ lastPts # NoPts /\ lastDts # NoPts
        /\ out.pts = LiftPts(lastPts, lastDts) /\ out.dts = lastDts
    BY DEF ClockInv, TypeOK, EmittedIsRemembered
  <2>3. /\ lastPts' \in Int /\ lastDts' \in Int
        /\ lastPts' > lastPts /\ lastDts' > lastDts
        /\ out' = [pts |-> LiftPts(lastPts', lastDts'), dts |-> lastDts']
    BY <2>1, <2>2, CallEffect DEF ClockInv
  <2>4. QED
    BY <2>2, <2>3 DEF LiftPts
<1>2. QED
  BY <1>1, ClockInvariant, PTL DEF Spec, StrictlyIncreasing

(* A clamp is never carried over: once the source's timestamps are past    *)
(* everything emitted, the output is the rescaled source again.            *)
THEOREM ClockCatchesUp == Spec => CatchesUp
<1> DEFINE p == RescaleIfSet(in'.pts)
           d == RescaleIfSet(in'.dts)
           Exact == (/\ in'.pts # NoPts /\ in'.dts # NoPts
                     /\ p >= d
                     /\ packets > 0 => p > out.pts /\ d > out.dts)
                    => out' = [pts |-> p, dts |-> d]
<1>1. ClockInv /\ [Next]_vars => [Exact]_vars
  <2> SUFFICES ASSUME ClockInv, Next,
                      in'.pts # NoPts, in'.dts # NoPts, p >= d,
                      packets > 0 => p > out.pts /\ d > out.dts
               PROVE  out' = [pts |-> p, dts |-> d]
    OBVIOUS
  <2>1. PICK pkt \in Packet(Stamps \union {NoPts}) : normalizePacket(pkt)
    BY DEF Next
  <2>2. in' = pkt /\ pkt.pts \in Int /\ pkt.dts \in Int
    BY <2>1, ClockAssumption DEF normalizePacket, Packet
  <2>3. /\ p = Rescale(pkt.pts) /\ d = Rescale(pkt.dts)
        /\ p \in Int /\ d \in Int
    BY <2>2, RescaleType DEF RescaleIfSet
  <2> HIDE DEF p, d
  <2>4. PtsOf(pkt) = p
    BY <2>2, <2>3 DEF PtsOf
  <2>5. /\ lastPts # NoPts => lastPts \in Int /\ p > lastPts
        /\ lastDts # NoPts => lastDts \in Int /\ d > lastDts
    <3>1. CASE packets = 0
      BY <3>1 DEF ClockInv, EmittedIsRemembered
    <3>2. CASE packets > 0
      <4>1. lastPts \in Int /\ lastDts \in Int
        BY <3>2 DEF ClockInv, TypeOK, EmittedIsRemembered
      <4>2. out.pts = LiftPts(lastPts, lastDts) /\ out.dts = lastDts
        BY <3>2 DEF ClockInv, EmittedIsRemembered
      <4>3. p > out.pts /\ d > out.dts
        BY <3>2
      <4>4. QED
        BY <2>3, <4>1, <4>2, <4>3 DEF LiftPts
    <3>3. QED
      BY <3>1, <3>2 DEF ClockInv, TypeOK
  <2>6. Clamp(p, lastPts) = p /\ Clamp(d, lastDts) = d
    BY <2>3, <2>5 DEF Clamp
  <2>7. out' = [pts |-> LiftPts(p, d), dts |-> d]
    BY <2>1, <2>2, <2>3, <2>4, <2>6 DEF normalizePacket
  <2>8. QED
    BY <2>3, <2>7 DEF LiftPts
<1>2. QED
  BY <1>1, ClockInvariant, PTL DEF Spec, CatchesUp
-----------------------------------------------------------------------------
(* The loop of the worker.  The source may step from any timestamp to any  *)
(* other, and the muxer is specified for any distance between two packets. *)

(* What the loop hands to the clock is a packet.                           *)
LoopInv == stamp \in Int /\ packet \in Packet(Int \union {NoPts})

PipeInv == ClockInv /\ LoopInv

AnySource == Stamps = Int /\ Steps \subseteq Int

(* Every step of the loop is a call of the clock or leaves it alone.       *)
LEMMA LoopCallsClock ==
    AnySource /\ LoopInv /\ [PipeNext]_pipeVars => [Next]_vars
<1> SUFFICES ASSUME AnySource, LoopInv, [PipeNext]_pipeVars PROVE [Next]_vars
  OBVIOUS
<1>1. CASE Write
  <2>1. normalizePacket(packet)
    BY <1>1 DEF Write
  <2>2. packet \in Packet(Stamps \union {NoPts})
    BY DEF AnySource, LoopInv
  <2>3. QED
    BY <2>1, <2>2 DEF Next
<1>2. CASE Open \/ Reconnect \/ ReadFrame \/ ReadOther \/ Mark \/ MuxerRuns \/ Close
  BY <1>2 DEF Open, Reconnect, ReadFrame, ReadOther, Mark, MuxerRuns, Close
<1>3. CASE UNCHANGED pipeVars
  BY <1>3 DEF pipeVars
<1>4. QED
  BY <1>1, <1>2, <1>3 DEF PipeNext

LEMMA LoopKeepsPackets ==
    AnySource /\ LoopInv /\ [PipeNext]_pipeVars => LoopInv'
<1> SUFFICES ASSUME AnySource, LoopInv, [PipeNext]_pipeVars PROVE LoopInv'
  OBVIOUS
<1>1. CASE ReadFrame
  <2>1. stamp' \in Int
    BY <1>1 DEF ReadFrame, AnySource, LoopInv
  <2>2. packet' \in Packet(Int \union {NoPts})
    <3>1. CASE Missing
      BY <1>1, <2>1, <3>1 DEF ReadFrame, Packet
    <3>2. CASE ~Missing
      BY <1>1, <2>1, <3>2 DEF ReadFrame, Packet
    <3>3. QED
      BY <3>1, <3>2
  <2>3. QED
    BY <2>1, <2>2 DEF LoopInv
<1>2. CASE Reconnect
  BY <1>2 DEF Reconnect, LoopInv
<1>3. CASE Write
  BY <1>3 DEF Write, sourceVars, LoopInv, NoPacket, Packet
<1>4. CASE Open \/ ReadOther \/ Mark \/ MuxerRuns \/ Close
  BY <1>4 DEF Open, ReadOther, Mark, MuxerRuns, Close, sourceVars, LoopInv
<1>5. CASE UNCHANGED pipeVars
  BY <1>5 DEF pipeVars, sourceVars, LoopInv
<1>6. QED
  BY <1>1, <1>2, <1>3, <1>4, <1>5 DEF PipeNext

(* The clock inside the loop is PacketClock: everything shown of the clock *)
(* holds of the timestamps the muxer gets, across all reconnects.          *)
THEOREM PipelineDrivesClock == ASSUME AnySource PROVE PipeSpec => Spec
<1>1. PipeInit => Init /\ LoopInv
  BY DEF PipeInit, LoopInv, NoPacket, Packet
<1>2. LoopInv /\ [PipeNext]_pipeVars => LoopInv'
  BY LoopKeepsPackets
<1>3. LoopInv /\ [PipeNext]_pipeVars => [Next]_vars
  BY LoopCallsClock
<1>4. QED
  BY <1>1, <1>2, <1>3, PTL DEF PipeSpec, Spec

(* The distance from the last packet's PTS to the next one's, as the muxer *)
(* computes it, is positive.                                               *)
LEMMA GapIsPositive ==
    ASSUME ClockInv, LoopInv, AnySource, normalizePacket(packet), packets # 0
    PROVE  out'.pts - out.pts \in Nat \ {0}
<1>1. packet \in Packet(Stamps \union {NoPts})
  BY DEF AnySource, LoopInv
<1>2. /\ lastPts \in Int /\ lastDts \in Int
      /\ lastPts # NoPts /\ lastDts # NoPts
      /\ out.pts = LiftPts(lastPts, lastDts)
  BY DEF ClockInv, TypeOK, EmittedIsRemembered
<1>3. /\ lastPts' \in Int /\ lastDts' \in Int
      /\ lastPts' > lastPts /\ lastDts' > lastDts
      /\ out' = [pts |-> LiftPts(lastPts', lastDts'), dts |-> lastDts']
  BY <1>1, <1>2, CallEffect DEF ClockInv
<1>4. \A a, b, c, d \in Int :
          c > a /\ d > b => LiftPts(c, d) - LiftPts(a, b) \in Nat \ {0}
  BY DEF LiftPts
<1>5. QED
  BY <1>2, <1>3, <1>4

(* writePacket's precondition "`packet` has been normalized by PacketClock *)
(* (monotonic PTS/DTS)" (HlsMuxer.h:49) is kept by the loop: it drives the *)
(* muxer as HlsMuxer specifies, whatever the source sends and however      *)
(* often it starts again.                                                  *)
THEOREM PipelineDrivesMuxer ==
    ASSUME AnySource, Gaps = Nat \ {0}
    PROVE  PipeSpec => ImplementsMuxer
<1>1. PipeInit => Muxer!Init /\ PipeInv
  BY InitInv DEF PipeInit, PipeInv, LoopInv, NoPacket, Packet
<1>2. PipeInv /\ [PipeNext]_pipeVars => PipeInv'
  BY LoopKeepsPackets, LoopCallsClock, StepInv DEF PipeInv
<1>3. PipeInv /\ [PipeNext]_pipeVars => [Muxer!Next]_(Muxer!vars)
  <2> SUFFICES ASSUME PipeInv, [PipeNext]_pipeVars
               PROVE  [Muxer!Next]_(Muxer!vars)
    OBVIOUS
  <2>1. CASE Write
    <3> DEFINE d == IF packets = 0 THEN 1 ELSE out'.pts - out.pts
    <3>1. d \in Gaps
      BY <2>1, GapIsPositive DEF PipeInv, Write
    <3>2. Muxer!WriteFirst(d) \/ Muxer!WriteRotates(d) \/ Muxer!WriteFits(d)
      BY <2>1 DEF Write
    <3> HIDE DEF d
    <3>3. QED
      BY <3>1, <3>2 DEF Muxer!Next, Muxer!writePacket
  <2>2. CASE Open
    BY <2>2 DEF Open, Muxer!Next
  <2>3. CASE Mark
    BY <2>3 DEF Mark, Muxer!Next
  <2>4. CASE MuxerRuns
    BY <2>4 DEF MuxerRuns, Muxer!Next, Muxer!writePacket
  <2>5. CASE Close
    BY <2>5 DEF Close, Muxer!Next
  <2>6. CASE Reconnect \/ ReadFrame \/ ReadOther \/ UNCHANGED pipeVars
    <3>1. UNCHANGED muxerVars
      BY <2>6 DEF Reconnect, ReadFrame, ReadOther, pipeVars
    <3>2. UNCHANGED Muxer!vars
      BY <3>1 DEF muxerVars, Muxer!vars, Muxer!diskVars, Muxer!segVars,
                  Muxer!sweepVars, Muxer!envVars, Muxer!history, Muxer!lost
    <3>3. QED
      BY <3>2
  <2>7. QED
    BY <2>1, <2>2, <2>3, <2>4, <2>5, <2>6 DEF PipeNext
<1>4. QED
  BY <1>1, <1>2, <1>3, PTL DEF PipeSpec, ImplementsMuxer, Muxer!Spec
-----------------------------------------------------------------------------
(* Reconnects and their markers.  A marker goes to the segment closed last *)
(* or, when none was, to the one being written; the first frame after it   *)
(* falls into the segment being written or into the one after that.        *)

Entry == [idx : Nat, created : {0}, disc : BOOLEAN, dur : Int \union {SegDur}]

(* The worker has stopped, or has not begun.                               *)
Closing == \/ pc \in {"down", "final"}
           \/ pc \in {"live", "archive"} /\ after \in {"down", "final"}

(* A segment was closed for a frame whose own segment is not yet open.     *)
Rotating == \/ pc = "rotate"
            \/ pc \in {"live", "archive"} /\ after = "rotate"

(* In one run, with nothing deleted, the k-th segment has the number k - 1 *)
(* and the one being written the next.                                     *)
NumberedInv ==
    /\ segments \in Seq(Entry)
    /\ index = Len(segments)
    /\ \A k \in 1..Len(segments) : segments[k].idx = k - 1

(* What else the muxer keeps as the loop drives it.                        *)
DrivenInv ==
    /\ pc \in {"down", "ready", "setup", "marker", "frame", "cleanup",
               "rotate", "live", "archive", "final"}
    /\ after \in {"down", "ready", "rotate", "final"}
    /\ elapsed \in Int \union {NoPts} /\ gap \in Int
    /\ cur \in BOOLEAN /\ flagNext \in BOOLEAN
    /\ ~pending /\ now = 0
    /\ runs \in {0, 1}
    /\ runs = 0 => /\ pc = "down" /\ Muxer!Files = {} /\ segments = <<>>
                   /\ ~flagNext /\ packets = 0 /\ wpc = "read" /\ ~splice

LoopState ==
    /\ wpc \in {"read", "mark", "markother", "write"}
    /\ fresh \in BOOLEAN /\ splice \in BOOLEAN
    /\ splices \subseteq Nat
    /\ wpc # "read" => ~fresh
    /\ fresh \/ wpc \in {"mark", "markother"} => splice
    /\ packets = 0 => splices = {}

(* The marker for the reconnect at hand has been set.                      *)
AtHand ==
    IF segments = <<>> THEN flagNext ELSE segments[Len(segments)].disc

(* A segment that was marked for a connection which began at d segments    *)
(* from it, and a connection that has its marker.                          *)
Owed(k) == \/ \E d \in 0..2 : (k - 1) + d \in splices
           \/ splice /\ k = Len(segments)

Told(i) == \E d \in 0..2 :
               \/ \E k \in 1..Len(segments) : k - 1 = i - d /\ segments[k].disc
               \/ flagNext /\ i - d = index

MarkerInv ==
    /\ IF packets = 0 THEN segments = <<>>
       ELSE (cur \/ Rotating) /\ (splice \/ flagNext => cur)
    /\ splice => fresh \/ wpc \in {"mark", "markother"} \/ AtHand
    /\ flagNext => segments = <<>>
    /\ flagNext /\ ~splice => 0 \in splices
    /\ \A k \in 1..Len(segments) : segments[k].disc => Owed(k)
    /\ \A i \in splices : Told(i)

SpliceInv == NumberedInv /\ DrivenInv /\ LoopState /\ (Closing \/ MarkerInv)

LEMMA SpliceInit == PipeInit => SpliceInv
<1> SUFFICES ASSUME PipeInit PROVE SpliceInv
  OBVIOUS
<1>1. NumberedInv
  BY DEF PipeInit, Muxer!Init, NumberedInv
<1>2. DrivenInv
  <2>1. Muxer!Files = {}
    BY DEF PipeInit, Muxer!Init, Muxer!Files
  <2>2. /\ pc = "down" /\ after = "down" /\ segments = <<>> /\ runs = 0
        /\ elapsed = NoPts /\ gap = 0 /\ cur = FALSE /\ flagNext = FALSE
        /\ pending = FALSE /\ now = 0 /\ packets = 0 /\ wpc = "read"
        /\ splice = FALSE
    BY DEF PipeInit, Init, Muxer!Init
  <2>3. cur \in BOOLEAN /\ flagNext \in BOOLEAN /\ ~flagNext /\ ~pending /\ ~splice
    BY <2>2
  <2>4. QED
    BY <2>1, <2>2, <2>3 DEF DrivenInv
<1>3. LoopState
  BY DEF PipeInit, Init, LoopState
<1>4. Closing
  BY DEF PipeInit, Muxer!Init, Closing
<1>5. QED
  BY <1>1, <1>2, <1>3, <1>4 DEF SpliceInv

(* open() in an empty directory finds nothing.                             *)
LEMMA OpenStep == ASSUME SpliceInv, Open PROVE SpliceInv'
<1>1. runs = 0 /\ runs' = 1
  BY DEF Open, Muxer!open, SpliceInv, DrivenInv
<1>2. /\ Muxer!Files = {} /\ segments = <<>> /\ packets = 0 /\ wpc = "read"
      /\ ~flagNext /\ ~splice
  BY <1>1 DEF SpliceInv, DrivenInv
<1>3. segments' = <<>>
  <2>1. Muxer!Scans = {{}} /\ Muxer!Timed({}) = {{}}
    BY <1>2 DEF Muxer!Scans, Muxer!Timed
  <2>2. PICK order \in Muxer!Orders({}) :
            segments' = [k \in DOMAIN order |-> Muxer!Recovered(order[k])]
    BY <2>1 DEF Open, Muxer!open
  <2>3. Cardinality({}) = 0
    BY FS_EmptySet
  <2>4. DOMAIN order = {}
    BY <2>2, <2>3 DEF Muxer!Orders
  <2>5. QED
    BY <2>2, <2>4
<1>4. /\ index' = 0 /\ pc' = "ready" /\ after' = after
      /\ pending' = FALSE /\ cur' = FALSE /\ flagNext' = FALSE
      /\ elapsed' = NoPts /\ gap' = gap /\ now' = now
      /\ UNCHANGED <<vars, wpc, sourceVars, spliceVars>>
  <2>1. Muxer!Scans = {{}}
    BY <1>2 DEF Muxer!Scans
  <2>2. QED
    BY <2>1 DEF Open, Muxer!open
<1>5. NumberedInv'
  BY <1>3, <1>4 DEF NumberedInv
<1>6. DrivenInv'
  <2>1. after \in {"down", "ready", "rotate", "final"} /\ gap \in Int /\ now = 0
    BY DEF SpliceInv, DrivenInv
  <2>2. cur' \in BOOLEAN /\ flagNext' \in BOOLEAN /\ ~pending'
    BY <1>4
  <2>3. QED
    BY <1>1, <1>4, <2>1, <2>2 DEF DrivenInv
<1>7. LoopState'
  BY <1>4 DEF SpliceInv, LoopState, vars, sourceVars, spliceVars
<1>8. ~splice /\ splices = {} /\ packets' = 0 /\ splice' = splice /\ splices' = splices
  BY <1>2, <1>4 DEF SpliceInv, DrivenInv, LoopState, vars, spliceVars
<1>9. MarkerInv'
  BY <1>3, <1>4, <1>8 DEF MarkerInv
<1>10. QED
  BY <1>5, <1>6, <1>7, <1>9 DEF SpliceInv

(* A step that leaves the markers and the loop's own state alone.          *)
LEMMA MarkersKept ==
    ASSUME LoopState, MarkerInv,
           UNCHANGED <<packets, segments, index, flagNext, splice, splices, fresh, wpc>>,
           packets # 0 => cur' \/ Rotating', cur => cur'
    PROVE  LoopState' /\ MarkerInv'
<1>1. LoopState'
  BY DEF LoopState
<1>2. AtHand' = AtHand /\ \A k : Owed(k)' = Owed(k) /\ Told(k)' = Told(k)
  BY DEF AtHand, Owed, Told
<1>3. QED
  BY <1>1, <1>2 DEF MarkerInv

LEMMA MuxerStep == ASSUME SpliceInv, MuxerRuns PROVE SpliceInv'
<1> USE DEF MuxerRuns, Muxer!RotateOpens, Muxer!startNewSegment,
            Muxer!setupOutputStream, Muxer!PendingMarker, Muxer!WriteFrame,
            Muxer!updateLivePlaylist, Muxer!updateArchivePlaylist,
            Muxer!CloseFinal, Muxer!PlaylistsThen, Muxer!segVars,
            Muxer!envVars, Muxer!diskVars, Muxer!sweepVars, Muxer!history
<1>1. /\ ~pending /\ pc \in Muxer!Phase /\ runs = 1
      /\ elapsed \in Int \union {NoPts} /\ gap \in Int
      /\ after \in {"down", "ready", "rotate", "final"}
      /\ cur \in BOOLEAN
  BY DEF SpliceInv, DrivenInv, Muxer!Phase
<1>2. /\ UNCHANGED <<segments, index, flagNext, runs, now, gap>>
      /\ UNCHANGED <<vars, wpc, packet, sourceVars, spliceVars>>
  BY <1>1
<1>3. /\ pc' \in {"ready", "setup", "marker", "frame", "cleanup", "rotate",
                  "live", "archive", "final", "down"}
      /\ after' \in {"down", "ready", "rotate", "final"}
      /\ elapsed' \in Int \union {NoPts}
      /\ cur' \in BOOLEAN /\ ~pending'
  <2>1. CASE Muxer!RotateOpens
    BY <1>1, <2>1
  <2>2. CASE Muxer!setupOutputStream \/ Muxer!PendingMarker
    BY <1>1, <2>2
  <2>3. CASE Muxer!WriteFrame
    BY <1>1, <2>3
  <2>4. CASE \/ Muxer!updateLivePlaylist \/ Muxer!updateArchivePlaylist
             \/ Muxer!CloseFinal
    BY <1>1, <2>4
  <2>5. QED
    BY <2>1, <2>2, <2>3, <2>4
<1>4. /\ Closing => Closing'
      /\ Rotating => Rotating' \/ cur'
      /\ cur => cur'
  BY <1>1 DEF Closing, Rotating
<1> USE <1>2
<1>5. NumberedInv'
  BY DEF SpliceInv, NumberedInv
<1>6. DrivenInv'
  BY <1>1, <1>3 DEF SpliceInv, DrivenInv
<1>7. LoopState'
  BY DEF SpliceInv, LoopState, vars, sourceVars, spliceVars
<1>8. MarkerInv => MarkerInv'
  <2> SUFFICES ASSUME MarkerInv PROVE MarkerInv'
    OBVIOUS
  <2>1. /\ packets # 0 => cur' \/ Rotating'
        /\ cur => cur'
        /\ UNCHANGED <<packets, splice, splices, fresh>>
    BY <1>4 DEF MarkerInv, vars, sourceVars, spliceVars
  <2>2. QED
    BY <2>1, MarkersKept DEF SpliceInv
<1>9. QED
  BY <1>4, <1>5, <1>6, <1>7, <1>8 DEF SpliceInv

(* readPacket(): nothing of the muxer changes.                             *)
LEMMA SourceStep ==
    ASSUME SpliceInv, packets \in Nat, Reconnect \/ ReadFrame \/ ReadOther
    PROVE  SpliceInv'
<1>1. pc = "ready" /\ UNCHANGED <<vars, muxerVars, splices>>
      /\ (Reconnect \/ fresh \/ UNCHANGED splice)
  BY DEF Reconnect, ReadFrame, ReadOther, spliceVars
<1>2. NumberedInv' /\ DrivenInv'
  <2>1. runs = 1
    BY <1>1 DEF SpliceInv, DrivenInv
  <2>2. QED
    BY <1>1, <2>1 DEF SpliceInv, NumberedInv, DrivenInv, muxerVars
<1>3. /\ wpc = "read"
      /\ wpc' \in {"read", "mark", "markother", "write"}
      /\ fresh' \in BOOLEAN /\ splice' \in BOOLEAN
      /\ wpc' # "read" => ~fresh'
      /\ fresh' \/ wpc' \in {"mark", "markother"} => splice'
      /\ splice => splice'
      /\ fresh => fresh' \/ wpc' \in {"mark", "markother"}
      /\ splice' => splice \/ fresh'
  <2> USE DEF SpliceInv, LoopState
  <2>1. CASE Reconnect
    BY <2>1 DEF Reconnect
  <2>2. CASE ReadFrame
    BY <2>2 DEF ReadFrame, spliceVars
  <2>3. CASE ReadOther
    BY <2>3 DEF ReadOther, spliceVars
  <2>4. QED
    BY <2>1, <2>2, <2>3
<1>4. packets' = packets
  BY <1>1 DEF vars
<1>5. LoopState'
  BY <1>1, <1>3, <1>4 DEF SpliceInv, LoopState
<1>6. MarkerInv
  BY <1>1 DEF SpliceInv, Closing
<1>7. UNCHANGED <<pc, after, segments, index, flagNext, cur, splices>>
  BY <1>1 DEF muxerVars
<1>8. AtHand' = AtHand /\ (\A k : Owed(k) => Owed(k)') /\ \A i : Told(i)' = Told(i)
  BY <1>3, <1>7 DEF AtHand, Owed, Told
<1>9. cur \/ packets = 0
  BY <1>1, <1>6 DEF MarkerInv, Rotating
<1>10. MarkerInv'
  BY <1>3, <1>4, <1>6, <1>7, <1>8, <1>9 DEF MarkerInv, SpliceInv, LoopState
<1>11. QED
  BY <1>2, <1>5, <1>10 DEF SpliceInv

(* writeDiscontinuity(): the marker is set, and it is for the reconnect    *)
(* whose first frame has yet to be written.                                *)
LEMMA MarkStep == ASSUME SpliceInv, Mark PROVE SpliceInv'
<1>1. /\ pc = "ready" /\ pc' = "live" /\ after' = "ready"
      /\ wpc \in {"mark", "markother"} /\ wpc' \in {"read", "write"}
      /\ UNCHANGED <<packets, cur, index, elapsed, gap, pending, now, runs,
                     fresh, splice, splices>>
      /\ Muxer!MarkDiscontinuity
  BY DEF Mark, Muxer!writeDiscontinuity, Muxer!PlaylistsThen, Muxer!envVars,
         vars, sourceVars, spliceVars
<1>2. /\ splice /\ MarkerInv /\ runs = 1 /\ ~fresh
      /\ packets # 0 => cur
      /\ segments \in Seq(Entry) /\ index = Len(segments)
  BY <1>1 DEF SpliceInv, Closing, LoopState, MarkerInv, DrivenInv, NumberedInv
<1>3. CASE segments = <<>>
  <2>1. flagNext' = TRUE /\ segments' = segments
    BY <1>1, <1>3 DEF Muxer!MarkDiscontinuity
  <2>2. NumberedInv'
    BY <1>1, <2>1 DEF SpliceInv, NumberedInv
  <2>3. DrivenInv'
    BY <1>1, <1>2, <2>1 DEF SpliceInv, DrivenInv
  <2>4. LoopState'
    BY <1>1, <1>2 DEF SpliceInv, LoopState
  <2>5. AtHand' /\ (\A i : Told(i) => Told(i)')
    BY <1>1, <1>2, <1>3, <2>1 DEF AtHand, Told
  <2>6. MarkerInv'
    BY <1>1, <1>2, <1>3, <2>1, <2>5 DEF MarkerInv
  <2>7. QED
    BY <2>2, <2>3, <2>4, <2>6 DEF SpliceInv
<1>4. CASE segments # <<>>
  <2> DEFINE n == Len(segments)
  <2>1. /\ segments' = [segments EXCEPT ![n].disc = TRUE]
        /\ flagNext' = flagNext
    BY <1>1, <1>4 DEF Muxer!MarkDiscontinuity
  <2>2. n \in Nat \ {0} /\ \A k \in 1..n : segments[k] \in Entry
    BY <1>2, <1>4
  <2>3. /\ segments' \in Seq(Entry) /\ Len(segments') = n
        /\ \A k \in 1..n : segments'[k].idx = segments[k].idx
        /\ segments'[n].disc
        /\ \A k \in 1..n : k # n => segments'[k].disc = segments[k].disc
    <3> DEFINE e == [segments[n] EXCEPT !.disc = TRUE]
    <3>1. segments[n] \in Entry
      BY <2>2
    <3>2. e \in Entry /\ e.disc = TRUE /\ e.idx = segments[n].idx
      BY <3>1 DEF Entry
    <3>3. segments' = [segments EXCEPT ![n] = e]
      BY <2>1
    <3> HIDE DEF e
    <3>4. /\ segments' \in Seq(Entry) /\ Len(segments') = n
          /\ segments'[n] = e
          /\ \A k \in 1..n : k # n => segments'[k] = segments[k]
      BY <1>2, <2>2, <3>2, <3>3
    <3>5. QED
      BY <3>2, <3>4
  <2> HIDE DEF n
  <2>4. NumberedInv'
    BY <1>1, <1>2, <2>3 DEF SpliceInv, NumberedInv, n
  <2>5. DrivenInv'
    BY <1>1, <1>2, <2>1 DEF SpliceInv, DrivenInv
  <2>6. LoopState'
    BY <1>1, <1>2 DEF SpliceInv, LoopState
  <2>7. segments' # <<>> /\ AtHand'
    BY <2>2, <2>3 DEF AtHand
  <2>8. ASSUME NEW i \in splices PROVE Told(i)'
    <3>1. PICK d \in 0..2 :
              \/ \E k \in 1..n : k - 1 = i - d /\ segments[k].disc
              \/ flagNext /\ i - d = index
      BY <1>2, <2>8 DEF MarkerInv, Told, n
    <3>2. ~flagNext
      BY <1>2, <1>4 DEF MarkerInv
    <3>3. PICK k \in 1..n : k - 1 = i - d /\ segments[k].disc
      BY <3>1, <3>2
    <3>4. segments'[k].disc
      BY <2>3, <3>3
    <3>5. QED
      BY <2>3, <3>3, <3>4 DEF Told
  <2>9. ASSUME NEW k \in 1..n, segments'[k].disc PROVE Owed(k)'
    <3>1. CASE k = n
      BY <1>1, <1>2, <2>3, <3>1 DEF Owed
    <3>2. CASE k # n
      <4>1. Owed(k) /\ ~(k = n)
        BY <1>2, <2>3, <2>9, <3>2 DEF MarkerInv, n
      <4>2. QED
        BY <1>1, <4>1 DEF Owed, n
    <3>3. QED
      BY <3>1, <3>2
  <2>10. MarkerInv'
    BY <1>1, <1>2, <1>4, <2>1, <2>3, <2>7, <2>8, <2>9 DEF MarkerInv
  <2>11. QED
    BY <2>4, <2>5, <2>6, <2>10 DEF SpliceInv
<1>5. QED
  BY <1>3, <1>4

(* A closed segment is the last one of the list.                           *)
LEMMA RecordEffect ==
    ASSUME SpliceInv, Muxer!RecordSegment
    PROVE  /\ NumberedInv'
           /\ index' = index + 1 /\ cur' = FALSE /\ flagNext' = FALSE
           /\ Len(segments') = Len(segments) + 1
           /\ segments'[Len(segments) + 1].disc = flagNext
           /\ \A k \in 1..Len(segments) : segments'[k] = segments[k]
<1> DEFINE e == [idx |-> index, created |-> now, disc |-> flagNext,
                 dur |-> Muxer!Duration]
<1>1. /\ segments \in Seq(Entry) /\ index = Len(segments) /\ now = 0
      /\ elapsed \in Int \union {NoPts} /\ flagNext \in BOOLEAN
      /\ \A k \in 1..Len(segments) : segments[k].idx = k - 1
  BY DEF SpliceInv, NumberedInv, DrivenInv
<1>2. Muxer!Duration \in Int \union {SegDur}
  BY <1>1 DEF Muxer!Duration
<1>3. e \in Entry /\ e.disc = flagNext /\ e.idx = index
  BY <1>1, <1>2 DEF Entry
<1>4. /\ segments' = Append(segments, e)
      /\ index' = index + 1 /\ cur' = FALSE /\ flagNext' = FALSE
  BY DEF Muxer!RecordSegment
<1> HIDE DEF e
<1>5. /\ segments' \in Seq(Entry) /\ Len(segments') = Len(segments) + 1
      /\ segments'[Len(segments) + 1] = e
      /\ \A k \in 1..Len(segments) : segments'[k] = segments[k]
  BY <1>1, <1>3, <1>4
<1>6. NumberedInv'
  BY <1>1, <1>3, <1>4, <1>5 DEF NumberedInv
<1>7. QED
  BY <1>3, <1>4, <1>5, <1>6

(* The packet goes into a segment.  If it is the first of its connection,  *)
(* the marker is one or two segments before it, or in its own.             *)
LEMMA WriteStep ==
    ASSUME AnySource, PipeInv, SpliceInv, Write
    PROVE  SpliceInv'
<1> DEFINE d == IF packets = 0 THEN 1 ELSE out'.pts - out.pts
<1>1. /\ d \in Int
      /\ Muxer!WriteFirst(d) \/ Muxer!WriteRotates(d) \/ Muxer!WriteFits(d)
  BY GapIsPositive DEF PipeInv, Write
<1> HIDE DEF d
<1>2. /\ pc = "ready" /\ wpc = "write" /\ wpc' = "read" /\ fresh' = fresh
      /\ splice' = FALSE
      /\ splices' = IF splice THEN splices \union {index'} ELSE splices
      /\ packets' = packets + 1 /\ packets \in Nat
  BY DEF Write, normalizePacket, sourceVars, PipeInv, ClockInv, TypeOK
<1>3. /\ MarkerInv /\ runs = 1 /\ ~fresh
      /\ index = Len(segments) /\ Len(segments) \in Nat
      /\ packets # 0 => cur
      /\ splice => AtHand
  BY <1>2 DEF SpliceInv, Closing, Rotating, LoopState, DrivenInv, NumberedInv,
              MarkerInv
<1>4. index' \in Nat => LoopState'
  <2>1. splices \subseteq Nat
    BY DEF SpliceInv, LoopState
  <2>2. index' \in Nat => splices' \subseteq Nat
    BY <1>2, <2>1
  <2>3. packets' > 0 /\ wpc' = "read" /\ ~fresh' /\ ~splice'
    BY <1>2, <1>3
  <2>4. fresh' \in BOOLEAN /\ splice' \in BOOLEAN
    BY <1>2 DEF SpliceInv, LoopState
  <2>5. QED
    BY <2>2, <2>3, <2>4, <1>2 DEF LoopState
<1>5. CASE Muxer!WriteFirst(d)
  <2>1. /\ ~cur /\ gap' = d /\ cur' = TRUE /\ pc' = "setup"
        /\ elapsed' \in {NoPts, -d}
        /\ UNCHANGED <<after, segments, index, flagNext, pending, now, runs>>
    BY <1>5 DEF Muxer!WriteFirst, Muxer!startNewSegment, Muxer!envVars
  <2>2. /\ segments = <<>> /\ index = 0 /\ splices = {}
        /\ splice \in BOOLEAN /\ splice = flagNext
        /\ splices' = IF splice THEN {0} ELSE {}
    BY <1>2, <1>3, <2>1 DEF SpliceInv, DrivenInv, NumberedInv, LoopState, MarkerInv,
                            AtHand
  <2>3. NumberedInv'
    BY <2>1 DEF SpliceInv, NumberedInv
  <2>4. DrivenInv'
    BY <1>1, <1>3, <2>1 DEF SpliceInv, DrivenInv
  <2>5. LoopState'
    BY <1>3, <1>4, <2>1
  <2>6. ASSUME splice PROVE Told(0)'
    <3>1. flagNext' /\ 0 - 0 = index' /\ 0 \in 0..2
      BY <2>1, <2>2, <2>6
    <3>2. QED
      BY <3>1 DEF Told
  <2>7. MarkerInv'
    BY <1>2, <1>3, <2>1, <2>2, <2>6 DEF MarkerInv
  <2>8. QED
    BY <2>3, <2>4, <2>5, <2>7 DEF SpliceInv
<1>6. CASE Muxer!WriteFits(d)
  <2>1. /\ cur /\ gap' = d /\ pc' = "marker"
        /\ UNCHANGED <<after, segments, cur, index, elapsed, flagNext, pending,
                       now, runs>>
    BY <1>6 DEF Muxer!WriteFits, Muxer!envVars
  <2>2. NumberedInv'
    BY <2>1 DEF SpliceInv, NumberedInv
  <2>3. DrivenInv'
    BY <1>1, <1>3, <2>1 DEF SpliceInv, DrivenInv
  <2>4. LoopState'
    BY <1>3, <1>4, <2>1
  <2>5. ASSUME NEW k \in 1..Len(segments), segments[k].disc PROVE Owed(k)'
    <3>1. Owed(k)
      BY <1>3, <2>5 DEF MarkerInv
    <3>2. CASE \E c \in 0..2 : (k - 1) + c \in splices
      BY <1>2, <3>2 DEF Owed
    <3>3. CASE splice /\ k = Len(segments)
      <4>1. (k - 1) + 1 \in splices' /\ 1 \in 0..2
        BY <1>2, <1>3, <2>1, <3>3
      <4>2. QED
        BY <4>1 DEF Owed
    <3>4. QED
      BY <3>1, <3>2, <3>3 DEF Owed
  <2>6. \A i : Told(i)' = Told(i)
    BY <2>1 DEF Told
  <2>7. splice => Told(index)
    <3>1. CASE segments = <<>>
      BY <1>3, <3>1 DEF Told, AtHand, SpliceInv, NumberedInv
    <3>2. CASE segments # <<>> /\ splice
      <4>1. /\ Len(segments) \in 1..Len(segments) /\ 1 \in 0..2
            /\ Len(segments) - 1 = index - 1
            /\ segments[Len(segments)].disc
        BY <1>3, <3>2 DEF AtHand, SpliceInv, NumberedInv
      <4>2. QED
        BY <4>1 DEF Told
    <3>3. QED
      BY <3>1, <3>2
  <2>8. flagNext => 0 \in splices'
    <3>1. flagNext => index = 0
      BY <1>3 DEF MarkerInv
    <3>2. QED
      BY <1>2, <1>3, <2>1, <3>1 DEF MarkerInv
  <2>9. MarkerInv'
    BY <1>2, <1>3, <2>1, <2>5, <2>6, <2>7, <2>8 DEF MarkerInv
  <2>10. QED
    BY <2>2, <2>3, <2>4, <2>9 DEF SpliceInv
<1>7. CASE Muxer!WriteRotates(d)
  <2> DEFINE n == Len(segments)
  <2>1. /\ Muxer!RecordSegment /\ gap' = d /\ pc' = "live" /\ after' = "rotate"
        /\ UNCHANGED <<elapsed, pending, now, runs>>
    BY <1>7 DEF Muxer!WriteRotates, Muxer!PlaylistsThen, Muxer!envVars
  <2>2. /\ NumberedInv'
        /\ index' = n + 1 /\ cur' = FALSE /\ flagNext' = FALSE
        /\ Len(segments') = n + 1
        /\ segments'[n + 1].disc = flagNext
        /\ \A k \in 1..n : segments'[k] = segments[k]
    BY <1>3, <2>1, RecordEffect
  <2>3. DrivenInv'
    <3>1. cur' \in BOOLEAN /\ flagNext' \in BOOLEAN
      BY <2>2
    <3>2. QED
      BY <1>1, <1>3, <2>1, <3>1 DEF SpliceInv, DrivenInv
  <2>4. LoopState'
    BY <1>3, <1>4, <2>2
  <2>5. n \in Nat /\ segments' # <<>> /\ Rotating'
    BY <1>3, <2>1, <2>2 DEF Rotating
  <2> HIDE DEF n
  <2>6. ASSUME NEW k \in 1..(n + 1), segments'[k].disc PROVE Owed(k)'
    <3>1. CASE k = n + 1
      <4>1. flagNext /\ n = 0
        BY <1>3, <2>2, <2>6, <3>1 DEF MarkerInv, n
      <4>2. CASE splice
        <5>1. (k - 1) + 1 \in splices' /\ 1 \in 0..2
          BY <1>2, <2>2, <3>1, <4>1, <4>2
        <5>2. QED
          BY <5>1 DEF Owed
      <4>3. CASE ~splice
        <5>1. (k - 1) + 0 \in splices' /\ 0 \in 0..2
          BY <1>2, <1>3, <3>1, <4>1, <4>3 DEF MarkerInv
        <5>2. QED
          BY <5>1 DEF Owed
      <4>4. QED
        BY <4>2, <4>3 DEF SpliceInv, LoopState
    <3>2. CASE k \in 1..n
      <4>1. Owed(k)
        BY <1>3, <2>2, <2>6, <3>2 DEF MarkerInv, n
      <4>2. CASE \E c \in 0..2 : (k - 1) + c \in splices
        BY <1>2, <4>2 DEF Owed
      <4>3. CASE splice /\ k = n
        <5>1. (k - 1) + 2 \in splices' /\ 2 \in 0..2
          BY <1>2, <2>2, <2>5, <4>3
        <5>2. QED
          BY <5>1 DEF Owed
      <4>4. QED
        BY <4>1, <4>2, <4>3 DEF Owed, n
    <3>3. QED
      BY <2>5, <3>1, <3>2
  <2>7. ASSUME NEW i \in splices PROVE Told(i)'
    <3>1. PICK c \in 0..2 :
              \/ \E k \in 1..n : k - 1 = i - c /\ segments[k].disc
              \/ flagNext /\ i - c = index
      BY <1>3, <2>7 DEF MarkerInv, Told, n
    <3>2. CASE \E k \in 1..n : k - 1 = i - c /\ segments[k].disc
      <4>1. PICK k \in 1..n : k - 1 = i - c /\ segments[k].disc
        BY <3>2
      <4>2. k \in 1..Len(segments') /\ segments'[k].disc
        BY <2>2, <2>5, <4>1
      <4>3. QED
        BY <4>1, <4>2 DEF Told
    <3>3. CASE flagNext /\ i - c = index
      <4>1. /\ n + 1 \in 1..Len(segments') /\ segments'[n + 1].disc
            /\ (n + 1) - 1 = i - c
        BY <1>3, <2>2, <2>5, <3>3 DEF n
      <4>2. QED
        BY <4>1 DEF Told
    <3>4. QED
      BY <3>1, <3>2, <3>3
  <2>8. ASSUME splice, NEW i, i = n + 1 PROVE Told(i)'
    <3>1. AtHand
      BY <1>3, <2>8
    <3>2. CASE segments = <<>>
      <4>1. /\ n + 1 \in 1..Len(segments') /\ segments'[n + 1].disc
            /\ (n + 1) - 1 = i - 1 /\ 1 \in 0..2
        BY <2>2, <2>5, <2>8, <3>1, <3>2 DEF AtHand
      <4>2. QED
        BY <4>1 DEF Told
    <3>3. CASE segments # <<>>
      <4>1. n # 0 /\ segments[n].disc
        BY <3>1, <3>3 DEF AtHand, n, SpliceInv, NumberedInv
      <4>2. /\ n \in 1..Len(segments') /\ segments'[n].disc
            /\ n - 1 = i - 2 /\ 2 \in 0..2
        BY <2>2, <2>5, <2>8, <4>1
      <4>3. QED
        BY <4>2 DEF Told
    <3>4. QED
      BY <3>2, <3>3
  <2>9. \A i \in splices' : Told(i)'
    BY <1>2, <2>2, <2>7, <2>8
  <2>10. MarkerInv'
    BY <1>2, <2>2, <2>5, <2>6, <2>9 DEF MarkerInv
  <2>11. QED
    BY <2>2, <2>3, <2>4, <2>10 DEF SpliceInv
<1>8. QED
  BY <1>1, <1>5, <1>6, <1>7

(* After close() nothing is written any more.                              *)
LEMMA CloseStep == ASSUME SpliceInv, Close PROVE SpliceInv'
<1>1. /\ pc = "ready" /\ runs = 1
      /\ UNCHANGED <<wpc, packets, fresh, splice, splices, elapsed, gap,
                     pending, now, runs>>
  BY DEF Close, Muxer!close, Muxer!envVars, SpliceInv, DrivenInv, vars,
         sourceVars, spliceVars
<1>2. LoopState'
  BY <1>1 DEF SpliceInv, LoopState
<1>3. CASE cur
  <2>1. Muxer!RecordSegment /\ pc' = "live" /\ after' = "final"
    BY <1>3 DEF Close, Muxer!close, Muxer!PlaylistsThen
  <2>2. NumberedInv' /\ cur' \in BOOLEAN /\ flagNext' \in BOOLEAN
    BY <2>1, RecordEffect
  <2>3. DrivenInv'
    BY <1>1, <2>1, <2>2 DEF SpliceInv, DrivenInv
  <2>4. QED
    BY <1>2, <2>1, <2>2, <2>3 DEF SpliceInv, Closing
<1>4. CASE ~cur
  <2>1. pc' = "final" /\ UNCHANGED <<after, segments, flagNext, cur, index>>
    BY <1>1, <1>4 DEF Close, Muxer!close
  <2>2. NumberedInv' /\ DrivenInv'
    BY <1>1, <2>1 DEF SpliceInv, NumberedInv, DrivenInv
  <2>3. QED
    BY <1>2, <2>1, <2>2 DEF SpliceInv, Closing
<1>5. QED
  BY <1>3, <1>4

LEMMA SpliceStep ==
    ASSUME AnySource, PipeInv, SpliceInv, [PipeNext]_pipeVars
    PROVE  SpliceInv'
<1>1. packets \in Nat
  BY DEF PipeInv, ClockInv, TypeOK
<1>2. CASE UNCHANGED pipeVars
  <2>1. UNCHANGED <<packets, pc, after, disk, segments, cur, index, elapsed, gap,
                    flagNext, pending, now, runs, wpc, fresh, splice, splices>>
    BY <1>2 DEF pipeVars, vars, muxerVars, sourceVars, spliceVars
  <2>2. /\ NumberedInv' = NumberedInv /\ Closing' = Closing
        /\ LoopState' = LoopState
    BY <2>1 DEF NumberedInv, Closing, LoopState
  <2>3. DrivenInv' = DrivenInv
    BY <2>1 DEF DrivenInv, Muxer!Files
  <2>4. MarkerInv' = MarkerInv
    BY <2>1 DEF MarkerInv, AtHand, Owed, Told, Rotating
  <2>5. QED
    BY <2>2, <2>3, <2>4 DEF SpliceInv
<1>3. QED
  BY <1>1, <1>2, OpenStep, SourceStep, MarkStep, WriteStep, MuxerStep, CloseStep
  DEF PipeNext

(* Every reconnect has its marker at most two segments before the segment  *)
(* the new connection begins in, and no marker is without a reconnect.     *)
THEOREM EveryReconnectIsTold ==
    ASSUME AnySource
    PROVE  PipeSpec => []MarkersMatchSplices
<1>1. PipeInit => PipeInv /\ SpliceInv
  BY InitInv, SpliceInit
  DEF PipeInit, PipeInv, LoopInv, NoPacket, Packet
<1>2. PipeInv /\ [PipeNext]_pipeVars => PipeInv'
  BY LoopKeepsPackets, LoopCallsClock, StepInv DEF PipeInv
<1>3. PipeInv /\ SpliceInv /\ [PipeNext]_pipeVars => SpliceInv'
  BY SpliceStep
<1>4. SpliceInv => MarkersMatchSplices
  <2> SUFFICES ASSUME SpliceInv, pc = "ready", ~splice
               PROVE  /\ \A i \in splices : \E k \in 0..2 : Marking(i - k)
                      /\ \A k \in DOMAIN segments : segments[k].disc =>
                             \E d \in 0..2 : segments[k].idx + d \in splices
    BY DEF MarkersMatchSplices
  <2>1. /\ MarkerInv
        /\ DOMAIN segments = 1..Len(segments)
        /\ \A k \in 1..Len(segments) : segments[k].idx = k - 1
    BY DEF SpliceInv, Closing, NumberedInv
  <2>2. ASSUME NEW i \in splices PROVE \E d \in 0..2 : Marking(i - d)
    <3>1. PICK d \in 0..2 :
              \/ \E k \in 1..Len(segments) : k - 1 = i - d /\ segments[k].disc
              \/ flagNext /\ i - d = index
      BY <2>1 DEF MarkerInv, Told
    <3>2. flagNext => cur
      BY <2>1, <2>2 DEF MarkerInv, SpliceInv, LoopState
    <3>3. Marking(i - d)
      BY <2>1, <3>1, <3>2 DEF Marking, Marked
    <3>4. QED
      BY <3>3
  <2>3. ASSUME NEW k \in DOMAIN segments, segments[k].disc
        PROVE  \E d \in 0..2 : segments[k].idx + d \in splices
    BY <2>1, <2>3 DEF MarkerInv, Owed
  <2>4. QED
    BY <2>2, <2>3
<1>5. QED
  BY <1>1, <1>2, <1>3, <1>4, PTL DEF PipeSpec
=============================================================================
