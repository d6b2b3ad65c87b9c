------------------------------ MODULE History -------------------------------
(***************************************************************************)
(* web/js/history.js: recordHistory() turns the game's packets, which come *)
(* at the game's frame rate, into samples at no more than 60 Hz, holds     *)
(* slip peaks across the packets it skips, and marks the position trail at *)
(* 10 Hz.  One ring of slips stands for all the series: each is pushed in  *)
(* the same step as the ring of times and only the slips are held.         *)
(***************************************************************************)
EXTENDS Ring

CONSTANTS
    Half,        \* half of SAMPLE_MS, in the model's unit of time
    HistoryTime, \* HISTORY_MS
    Headroom,    \* the samples beyond HISTORY_MS / SAMPLE_MS, 60 in the code
    TrailTime,   \* TRAIL_INTERVAL_MS
    TrailCap,    \* TRAIL_SAMPLES
    Slips,       \* the combined slips a packet may report
    Horizon      \* bound: when the model's clock stops

ASSUME Times == Half \in Nat \ {0} /\ HistoryTime \in Nat \ {0} /\ TrailTime \in Nat \ {0} /\ Horizon \in Nat
ASSUME Sizes == Headroom \in Nat /\ Headroom >= 2 /\ TrailCap \in Nat \ {0}
ASSUME SlipsAreNumbers == Slips \subseteq Nat

VARIABLES
    now,          \* performance.now() of the page
    lastPacketAt, \* when the last packet came (main.js)
    time,         \* the ring of sample times
    slip,         \* the ring of one wheel's combined slip
    slipHold,     \* the peak since the last sample
    nextSampleAt,
    trail,        \* trailX and trailZ; a position is named by its time
    lastTrailAt,
    unshown       \* history variable: the slips since the last sample

vars == <<now, lastPacketAt, time, slip, slipHold, nextSampleAt, trail, lastTrailAt, unshown>>

SampleTime == 2 * Half

(* Bug: no sample more than the time shown takes at 60 Hz. *)
SamplesTight == (HistoryTime + SampleTime - 1) \div SampleTime

(* SAMPLES, with Math.ceil. *)
Samples == (HistoryTime + SampleTime - 1) \div SampleTime + Headroom

(* A time so long ago that no test tells it from -Infinity. *)
LongAgo == -(SampleTime + TrailTime)

Init ==
    /\ now = 0 /\ lastPacketAt = LongAgo
    /\ time = NewRing(Samples) /\ slip = NewRing(Samples)
    /\ slipHold = 0 /\ nextSampleAt = LongAgo
    /\ trail = NewRing(TrailCap) /\ lastTrailAt = LongAgo
    /\ unshown = {}

-----------------------------------------------------------------------------
(* Bug: the hold takes the packet's slip, peak or not. *)
HeldLatest(v) == v

Held(v) == IF v > slipHold THEN v ELSE slipHold

(* Bug: after a gap the cadence catches up in a burst. *)
DueBurst == nextSampleAt + SampleTime

(* Bug: after a gap the half is added to a whole sample time. *)
DueLate ==
    IF nextSampleAt + SampleTime > now + Half THEN nextSampleAt + SampleTime ELSE now + SampleTime + Half

(* A steady cadence, but after a gap no burst to catch up. *)
Due == IF nextSampleAt + SampleTime > now + Half THEN nextSampleAt + SampleTime ELSE now + Half

Sample(peak) ==
    /\ nextSampleAt' = Due
    /\ time' = Push(time, now)
    /\ slip' = Push(slip, peak)
    /\ slipHold' = 0
    /\ unshown' = {}

Skip(v) ==
    /\ slipHold' = Held(v)
    /\ unshown' = unshown \cup {v}
    /\ UNCHANGED <<time, slip, nextSampleAt>>

(* Bug: packets without a position put off the next mark. *)
MarkAlways(hasDash) ==
    /\ lastTrailAt' = IF now - lastTrailAt >= TrailTime THEN now ELSE lastTrailAt
    /\ trail' = IF hasDash THEN Push(trail, now) ELSE trail

Mark(hasDash) ==
    IF hasDash /\ now - lastTrailAt >= TrailTime
    THEN lastTrailAt' = now /\ trail' = Push(trail, now)
    ELSE UNCHANGED <<lastTrailAt, trail>>

(* onBinary's packet that parses: recordHistory(). *)
Packet(v, hasDash) ==
    /\ lastPacketAt' = now
    /\ IF now >= nextSampleAt THEN Sample(Held(v)) ELSE Skip(v)
    /\ Mark(hasDash)
    /\ UNCHANGED now

Tick ==
    /\ now < Horizon
    /\ now' = now + 1
    /\ UNCHANGED <<lastPacketAt, time, slip, slipHold, nextSampleAt, trail, lastTrailAt, unshown>>

Next == Tick \/ \E v \in Slips, hasDash \in BOOLEAN : Packet(v, hasDash)

Spec == Init /\ [][Next]_vars
-----------------------------------------------------------------------------
Clock == 0 .. Horizon

TypeOK ==
    /\ now \in Clock /\ lastPacketAt \in Clock \cup {LongAgo}
    /\ time \in Rings(Samples, Clock)
    /\ slip \in Rings(Samples, Nat)
    /\ slipHold \in Nat /\ nextSampleAt \in Int
    /\ trail \in Rings(TrailCap, Clock) /\ lastTrailAt \in Clock \cup {LongAgo}
    /\ unshown \subseteq Slips

(* Samples come at no more than 60 Hz over any stretch of the ring,        *)
(* whatever the packets' rate, their bursts and their gaps (history.js:5). *)
Paced ==
    \A i, j \in 0 .. time.len - 1 : i < j => At(time, j) - At(time, i) >= (j - i) * SampleTime - Half

(* And no less than the packets allow: the newest sample is never a whole  *)
(* sample time older than the newest packet (history.js:73-76).            *)
KeepsUp == lastPacketAt # LongAgo => time.len > 0 /\ lastPacketAt - Newest(time) < SampleTime

(* A full ring reaches back over all of HISTORY_MS, so the charts' time    *)
(* axis is filled (history.js:41).                                         *)
Reaches == time.len = Samples => Newest(time) - At(time, 0) >= HistoryTime

(* The marks of the trail are TRAIL_INTERVAL_MS apart or more, so that     *)
(* TRAIL_SAMPLES of them last for four minutes (history.js:42).            *)
TrailSpaced ==
    \A i \in 0 .. trail.len - 2 : At(trail, i + 1) - At(trail, i) >= TrailTime

(* The two rings stay in step, and a sample shows the highest slip of all  *)
(* the packets since the sample before it (history.js:68-88).              *)
Shown == [i \in 1 .. time.len |-> [at |-> At(time, i - 1), peak |-> At(slip, i - 1)]]
S == INSTANCE Sampling WITH Depth <- Samples, Levels <- Slips, Times <- Clock, window <- Shown, pending <- unshown
KeepsPeaks == S!Spec
=============================================================================
