------------------------------- MODULE Fanout -------------------------------
(***************************************************************************)
(* What the hub promises a browser, with no goroutines, locks or channels: *)
(* the style map comes first; of the packets that arrived the browser sees *)
(* some, each at most once and in order, whole; the maps it sees are maps  *)
(* the server has held.                                                    *)
(***************************************************************************)
EXTENDS Naturals

CONSTANT Conns      \* WebSocket connections

VARIABLES
    arrived,        \* packets that have come from the game, numbered from 1
    version,        \* how many style maps the server has held
    seen            \* per connection: the last packet and style map it got (0: none),
                    \* and how many packets it was shown

Init ==
    /\ arrived = 0
    /\ version = 1
    /\ seen = [c \in Conns |-> [packet |-> 0, packets |-> 0, styles |-> 0]]

Arrive ==
    /\ arrived' = arrived + 1
    /\ UNCHANGED <<version, seen>>

Change ==
    /\ version' = version + 1
    /\ UNCHANGED <<arrived, seen>>

ShowStyles(c) ==
    /\ \E v \in 1 .. version : seen' = [seen EXCEPT ![c].styles = v]
    /\ UNCHANGED <<arrived, version>>

ShowPacket(c) ==
    /\ seen[c].styles # 0
    /\ \E n \in (seen[c].packet + 1) .. arrived :
          seen' = [seen EXCEPT ![c].packet = n, ![c].packets = @ + 1]
    /\ UNCHANGED <<arrived, version>>

Next == Arrive \/ Change \/ \E c \in Conns : ShowStyles(c) \/ ShowPacket(c)

vars == <<arrived, version, seen>>

Spec == Init /\ [][Next]_vars
=============================================================================
