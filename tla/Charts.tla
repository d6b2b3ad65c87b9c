-------------------------------- MODULE Charts --------------------------------
(***************************************************************************)
(* web/js/telemetry/charts.js: which samples of the history the charts of  *)
(* the telemetry screen draw.  The traces show the last HISTORY_MS of it,  *)
(* the G-G diagram its last two seconds as a trail of a few chunks, each a *)
(* little brighter than the one before.                                    *)
(***************************************************************************)
EXTENDS History

CONSTANTS
    TrailShown, \* the 2000 ms of the G-G diagram
    Chunks      \* how many chunks its trail has, 6 in the code

ASSUME ChartSizes == TrailShown \in Nat /\ Chunks \in Nat \ {0}

(* Bug: the sample that is just old enough is left out. *)
Older(i, ms) == i > 0 /\ Newest(time) - At(time, i - 1) < ms

(* The loop's condition: the sample before i is in the window, too. *)
Earlier(i, ms) == i > 0 /\ Newest(time) - At(time, i - 1) <= ms

(* windowStart(), for a history that is not empty. *)
WindowStart(ms) ==
    LET from[i \in 0 .. time.len - 1] == IF Earlier(i, ms) THEN from[i - 1] ELSE i
    IN from[time.len - 1]

(* The samples a trace goes through: drawLines() needs two to draw a line. *)
Trace(ms) == IF time.len < 2 THEN {} ELSE WindowStart(ms) .. time.len - 1

Trail == time.len - WindowStart(TrailShown)

(* Bug: the chunks are rounded down. *)
PerFloor == Trail \div Chunks

Per == (Trail + Chunks - 1) \div Chunks

(* The stretches of one chunk, each named by the sample it starts from;    *)
(* the end of one chunk is the start of the next.                          *)
From(c) == WindowStart(TrailShown) + c * Per
Until(c) == IF time.len - 1 < From(c) + Per THEN time.len - 1 ELSE From(c) + Per
Stretches(c) == IF time.len < 2 THEN {} ELSE From(c) .. Until(c) - 1

-----------------------------------------------------------------------------
(* A chart draws exactly the samples no more than its time older than the  *)
(* newest one, as soon as there are two (charts.js:37-44, 88-91).          *)
WindowIsWhole ==
    \A ms \in {TrailShown, HistoryTime} :
        time.len >= 2 =>
            Trace(ms) = {i \in 0 .. time.len - 1 : Newest(time) - At(time, i) <= ms}

(* The chunks make up the whole trail: every stretch between two of its    *)
(* samples is drawn by one chunk and one only (charts.js:145-167).         *)
TrailDrawnOnce ==
    \A i \in Trace(TrailShown) \ {time.len - 1} :
        \E c \in 0 .. Chunks - 1 : \A d \in 0 .. Chunks - 1 : i \in Stretches(d) <=> d = c
===============================================================================
