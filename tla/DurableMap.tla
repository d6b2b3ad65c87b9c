----------------------------- MODULE DurableMap -----------------------------
(***************************************************************************)
(* What the style store promises, with no files, locks or goroutines: one  *)
(* map that changes one car at a time, and a saved copy of it that only    *)
(* ever becomes the whole current map.  A restart brings back the saved    *)
(* copy, or nothing when it cannot be read; it never brings back a mixture.*)
(***************************************************************************)

CONSTANTS
    Cars,     \* CarOrdinals
    Styles,   \* dash style ids
    NoStyle   \* a car without an entry

VARIABLES
    mem,      \* the map every device sees
    disk      \* the map the next start would read

EmptyMap == [c \in Cars |-> NoStyle]

Init ==
    /\ disk \in [Cars -> Styles \cup {NoStyle}]
    /\ mem \in {disk, EmptyMap}

Set(c, s) ==
    /\ mem' = [mem EXCEPT ![c] = s]
    /\ UNCHANGED disk

Save ==
    /\ disk' = mem
    /\ UNCHANGED mem

Restart ==
    /\ mem' \in {disk, EmptyMap}
    /\ UNCHANGED disk

Next ==
    \/ \E c \in Cars, s \in Styles \cup {NoStyle} : Set(c, s)
    \/ Save
    \/ Restart

vars == <<mem, disk>>

Spec == Init /\ [][Next]_vars
=============================================================================
