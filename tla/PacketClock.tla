---------------------------- MODULE PacketClock ----------------------------
(***************************************************************************)
(* PacketClock (src/util/PacketClock.cpp): rescales the timestamps of      *)
(* every packet from the camera's time base to the output's 90 kHz one and *)
(* clamps them so that they never go back.  The clock keeps lastPts_ and   *)
(* lastDts_ only: the correction that lifts a PTS to its DTS, at the end   *)
(* of normalizePacket, is not remembered in lastPts_.                      *)
(*                                                                         *)
(* One step of Next is one call of normalizePacket; a packet without a     *)
(* timestamp carries NoPts (AV_NOPTS_VALUE).                               *)
(***************************************************************************)
EXTENDS Integers

CONSTANTS
    TbNum, TbDen,       \* time base of the source stream, TbNum / TbDen
    OutTb,              \* ticks per second of the output time base
    FrameTicks,         \* DEFAULT_FRAME_DURATION
    NoPts,              \* AV_NOPTS_VALUE
    Stamps,             \* the timestamps a source packet may carry
    MaxPackets          \* bound: calls of normalizePacket explored

ASSUME ClockAssumption ==
    /\ TbNum \in Nat \ {0} /\ TbDen \in Nat \ {0} /\ OutTb \in Nat \ {0}
    /\ FrameTicks \in Nat \ {0}
    /\ NoPts \notin Int
    /\ Stamps \subseteq Int
    /\ MaxPackets \in Nat

VARIABLES
    lastPts, lastDts,   \* lastPts_, lastDts_
    in,                 \* the packet handed to the last call
    out,                \* what the last call made of it
    packets             \* the number of calls so far

vars == <<lastPts, lastDts, in, out, packets>>

Packet(times) == [pts : times, dts : times]
NoPacket == [pts |-> NoPts, dts |-> NoPts]
-----------------------------------------------------------------------------
(* av_rescale_q: x * TbNum/TbDen seconds in ticks of 1/OutTb, rounded to   *)
(* the nearest tick, halves away from zero.                                *)
Rescale(x) ==
    LET scaled == 2 * x * TbNum * OutTb
    IN  IF x >= 0 THEN (scaled + TbDen) \div (2 * TbDen)
                  ELSE -((TbDen - scaled) \div (2 * TbDen))

RescaleIfSet(t) == IF t = NoPts THEN NoPts ELSE Rescale(t)

(* The PTS before clamping: rescaled, or synthesised when it is missing.   *)
PtsOf(pkt) ==
    IF pkt.pts # NoPts THEN Rescale(pkt.pts)
    ELSE IF pkt.dts # NoPts THEN Rescale(pkt.dts)
    ELSE IF lastPts # NoPts THEN lastPts + FrameTicks
    ELSE 0

(* Two wrong clamps, which the properties below must tell from Clamp: one  *)
(* lets an equal timestamp pass, the other counts on from the last one.    *)
ClampKeepsEqual(t, last) == IF last # NoPts /\ t < last THEN last + 1 ELSE t
ClampCountsOn(t, last) == IF last # NoPts THEN last + 1 ELSE t

Clamp(t, last) == IF last # NoPts /\ t <= last THEN last + 1 ELSE t

(* Wrong: no correction at all.                                            *)
LiftPtsNever(pts, dts) == pts

(* The correction PTS >= DTS that the MPEG-TS muxer requires.              *)
LiftPts(pts, dts) == IF pts < dts THEN dts ELSE pts

(* Wrong: lastDts_ is stored before it is clamped.                         *)
normalizeStoresEarly(pkt) ==
    LET pts == Clamp(PtsOf(pkt), lastPts)
        raw == IF pkt.dts = NoPts THEN pts ELSE Rescale(pkt.dts)
        dts == Clamp(raw, lastDts)
    IN  /\ packets < MaxPackets
        /\ in' = pkt
        /\ lastPts' = pts
        /\ lastDts' = raw
        /\ out' = [pts |-> LiftPts(pts, dts), dts |-> dts]
        /\ packets' = packets + 1

normalizePacket(pkt) ==
    LET pts == Clamp(PtsOf(pkt), lastPts)
        dts == Clamp(IF pkt.dts = NoPts THEN pts ELSE Rescale(pkt.dts), lastDts)
    IN  /\ packets < MaxPackets
        /\ in' = pkt
        /\ lastPts' = pts
        /\ lastDts' = dts
        /\ out' = [pts |-> LiftPts(pts, dts), dts |-> dts]
        /\ packets' = packets + 1

Init ==
    /\ lastPts = NoPts /\ lastDts = NoPts
    /\ in = NoPacket /\ out = NoPacket
    /\ packets = 0

Next == \E pkt \in Packet(Stamps \union {NoPts}) : normalizePacket(pkt)

Spec == Init /\ [][Next]_vars
-----------------------------------------------------------------------------
(* The clock's fields and the packets it has seen are of their types.      *)
TypeOK ==
    /\ lastPts \in Int \union {NoPts}
    /\ lastDts \in Int \union {NoPts}
    /\ in \in Packet(Stamps \union {NoPts})
    /\ out \in Packet(Int \union {NoPts})
    /\ packets \in 0..MaxPackets

(* The two fields are enough to know what was emitted last: its DTS is     *)
(* lastDts_ and its PTS the larger of the two, although lastPts_ itself    *)
(* may be behind the PTS that went out (PacketClock.cpp, the correction    *)
(* after "Final validation").                                              *)
EmittedIsRemembered ==
    /\ packets = 0 <=> lastPts = NoPts
    /\ packets = 0 <=> lastDts = NoPts
    /\ packets > 0 => out = [pts |-> LiftPts(lastPts, lastDts), dts |-> lastDts]

(* What the MPEG-TS muxer needs of every emitted packet: both timestamps   *)
(* are set and PTS >= DTS.                                                 *)
MuxableOutput ==
    packets > 0 => /\ out.pts \in Int /\ out.dts \in Int
                   /\ out.pts >= out.dts

(* From one emitted packet to the next both timestamps strictly increase,  *)
(* whatever the source does (gaps, restarts at zero, missing timestamps),  *)
(* and although lastPts_ can be smaller than the PTS that went out.        *)
StrictlyIncreasing ==
    [][packets > 0 => /\ out'.pts > out.pts
                      /\ out'.dts > out.dts]_vars

(* The clock has no lasting offset: whatever was clamped before, a packet  *)
(* whose rescaled timestamps are past everything emitted and in order      *)
(* leaves with exactly those timestamps.                                   *)
CatchesUp ==
    [][LET pts == RescaleIfSet(in'.pts)
           dts == RescaleIfSet(in'.dts)
       IN  (/\ in'.pts # NoPts /\ in'.dts # NoPts
            /\ pts >= dts
            /\ packets > 0 => pts > out.pts /\ dts > out.dts)
           => out' = [pts |-> pts, dts |-> dts]]_vars
-----------------------------------------------------------------------------
(* What a comment, a doc or a test says and the code does not do: TLC      *)
(* refutes the property below (README, "Disagreements").                   *)

(* test_packet_clock.cpp:62 expects a packet that comes without a PTS to   *)
(* keep it unset; normalizePacket synthesises one instead.                 *)
MissingPtsStaysMissing ==
    packets > 0 /\ in.pts = NoPts => out.pts = NoPts
=============================================================================
