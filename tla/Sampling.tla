------------------------------ MODULE Sampling ------------------------------
(***************************************************************************)
(* What the history promises a chart: the last Depth samples, oldest       *)
(* first, each with the time it was taken and the highest slip of all the  *)
(* packets since the one before it.                                        *)
(***************************************************************************)
EXTENDS Integers, Sequences, FiniteSetsExt

CONSTANTS
    Depth,   \* how many samples are kept
    Levels,  \* the slips a packet may report
    Times    \* the times a sample may be taken at

VARIABLES
    window,  \* the samples
    pending  \* the slips that no sample shows yet

LastOf(s) == SubSeq(s, IF Len(s) > Depth THEN Len(s) - Depth + 1 ELSE 1, Len(s))

Init == window = <<>> /\ pending = {}

(* A packet is put off, or taken as a sample with all that were put off.   *)
PutOff(slip) == pending' = pending \cup {slip} /\ UNCHANGED window
Take(slip, t) ==
    /\ window' = LastOf(Append(window, [at |-> t, peak |-> Max(pending \cup {slip})]))
    /\ pending' = {}

Next == \E slip \in Levels : PutOff(slip) \/ \E t \in Times : Take(slip, t)

Spec == Init /\ [][Next]_<<window, pending>>
=============================================================================
