----------------------------- MODULE SharedStyles -----------------------------
(***************************************************************************)
(* The style of each car, shared by every device.  A page notes a pick in  *)
(* its own map at once and sends it with a PUT (web/js/main.js,            *)
(* settings.js); putStyle saves it and casts the server's map, and serveWS *)
(* greets a new client with that map (hub.go); a page takes every map it   *)
(* hears for its own.                                                      *)
(*                                                                         *)
(* The requests travel each on its own, so one may overtake another.  The  *)
(* channels of Hub are long enough here: no styles frame is dropped.  When *)
(* a page offers a pick, and what it shows, is Page's business.            *)
(***************************************************************************)
EXTENDS Naturals, Sequences

CONSTANTS
    Browsers,
    Cars,      \* car ordinals above 0
    Styles,    \* style ids
    NoStyle,   \* a car has no saved style
    MaxPicks   \* bound: how many styles are picked in a run

ASSUME NamesDiffer == NoStyle \notin Styles
ASSUME PicksAreCounted == MaxPicks \in Nat

VARIABLES
    saved,      \* the server's map
    puts,       \* the PUT of every pick so far, and how far it has come
    conn,       \* a browser's WebSocket: "off", "greeted" but not in h.clients, "on"
    frames,     \* styles frames on their way to a browser
    carStyles,  \* state.carStyles of its page
    strayed,    \* history: a PUT of this browser failed and no frame has come since
    missed,     \* history: the map changed between its greeting and its registration
    overlapped  \* history: two PUTs were between their edit and their cast at once

server == <<saved, puts, overlapped>>
vars == <<server, conn, frames, carStyles, strayed, missed>>

Maps == [Cars -> Styles \cup {NoStyle}]
Empty == [c \in Cars |-> NoStyle]

(* A request is on its way, saved by styles.set, marshalled as a frame with *)
(* the map of that moment, done or lost.                                   *)
Puts == [by : Browsers, car : Cars, style : Styles, stage : {"sent", "edited", "marshalled", "done", "lost"}, map : Maps]

Halfway == {p \in DOMAIN puts : puts[p].stage \in {"edited", "marshalled"}}
Mine(b) == {p \in DOMAIN puts : puts[p].by = b /\ puts[p].stage \notin {"done", "lost"}}

Init ==
    /\ saved = Empty /\ puts = <<>> /\ overlapped = FALSE
    /\ conn = [b \in Browsers |-> "off"] /\ frames = [b \in Browsers |-> <<>>]
    /\ carStyles = [b \in Browsers |-> Empty]
    /\ strayed = [b \in Browsers |-> FALSE] /\ missed = [b \in Browsers |-> FALSE]

-----------------------------------------------------------------------------
(* The select's change event, for the car that is on the road. *)
Pick(b, car, s) ==
    /\ Len(puts) < MaxPicks
    /\ carStyles' = [carStyles EXCEPT ![b][car] = s]
    /\ puts' = Append(puts, [by |-> b, car |-> car, style |-> s, stage |-> "sent", map |-> Empty])
    /\ UNCHANGED <<saved, overlapped, conn, frames, strayed, missed>>

Heard(map) == map

(* onText of a styles frame. *)
Hear(b) ==
    /\ frames[b] # <<>>
    /\ frames' = [frames EXCEPT ![b] = Tail(@)]
    /\ carStyles' = [carStyles EXCEPT ![b] = Heard(Head(frames[b]))]
    /\ strayed' = [strayed EXCEPT ![b] = FALSE]
    /\ UNCHANGED <<server, conn, missed>>

(* The page is loaded again. *)
Reload(b) ==
    /\ conn' = [conn EXCEPT ![b] = "off"]
    /\ frames' = [frames EXCEPT ![b] = <<>>]
    /\ carStyles' = [carStyles EXCEPT ![b] = Empty]
    /\ UNCHANGED <<server, strayed, missed>>

-----------------------------------------------------------------------------
(* putStyle: styles.set, then stylesJSON, then broadcast. *)
Save(p) ==
    /\ puts[p].stage = "sent"
    /\ saved' = [saved EXCEPT ![puts[p].car] = puts[p].style]
    /\ puts' = [puts EXCEPT ![p].stage = "edited"]
    /\ overlapped' = (overlapped \/ Halfway # {})
    /\ missed' = [b \in Browsers |-> missed[b] \/ conn[b] = "greeted"]
    /\ UNCHANGED <<conn, frames, carStyles, strayed>>

Marshal(p) ==
    /\ puts[p].stage = "edited"
    /\ puts' = [puts EXCEPT ![p].stage = "marshalled", ![p].map = saved]
    /\ UNCHANGED <<saved, overlapped, conn, frames, carStyles, strayed, missed>>

(* Bug: the browser that sent the change is left out. *)
ListenersButSender(p) == {b \in Browsers : conn[b] = "on" /\ b # puts[p].by}

Listeners(p) == {b \in Browsers : conn[b] = "on"}

Cast(p) ==
    /\ puts[p].stage = "marshalled"
    /\ frames' = [b \in Browsers |-> IF b \in Listeners(p) THEN Append(frames[b], puts[p].map) ELSE frames[b]]
    /\ puts' = [puts EXCEPT ![p].stage = "done", ![p].map = Empty]
    /\ UNCHANGED <<saved, overlapped, conn, carStyles, strayed, missed>>

(* The request never arrives, or is refused: the page logs it. *)
Lose(p) ==
    /\ puts[p].stage = "sent"
    /\ puts' = [puts EXCEPT ![p].stage = "lost"]
    /\ strayed' = [strayed EXCEPT ![puts[p].by] = TRUE]
    /\ UNCHANGED <<saved, overlapped, conn, frames, carStyles, missed>>

Greeting == <<saved>>

(* serveWS: the first frame, then h.add. *)
Connect(b) ==
    /\ conn[b] = "off"
    /\ conn' = [conn EXCEPT ![b] = "greeted"]
    /\ frames' = [frames EXCEPT ![b] = Greeting]
    /\ missed' = [missed EXCEPT ![b] = FALSE]
    /\ UNCHANGED <<server, carStyles, strayed>>

Register(b) ==
    /\ conn[b] = "greeted"
    /\ conn' = [conn EXCEPT ![b] = "on"]
    /\ UNCHANGED <<server, frames, carStyles, strayed, missed>>

(* The connection is lost, with what was on its way. *)
Drop(b) ==
    /\ conn[b] # "off"
    /\ conn' = [conn EXCEPT ![b] = "off"]
    /\ frames' = [frames EXCEPT ![b] = <<>>]
    /\ UNCHANGED <<server, carStyles, strayed, missed>>

-----------------------------------------------------------------------------
(* Bug: the change is saved and nobody is told. *)
HandleSilently(p) == Save(p) \/ Marshal(p)

Handle(p) == Save(p) \/ Marshal(p) \/ Cast(p)

Next ==
    \/ \E p \in DOMAIN puts : Handle(p) \/ Lose(p)
    \/ \E b \in Browsers : \/ \E c \in Cars, s \in Styles : Pick(b, c, s)
                           \/ Hear(b) \/ Reload(b) \/ Connect(b) \/ Register(b) \/ Drop(b)

(* A request is handled or fails, frames arrive, and a page that is not    *)
(* connected tries again (Socket).                                         *)
Fairness ==
    /\ \A p \in 1 .. MaxPicks : WF_vars(p \in DOMAIN puts /\ (Handle(p) \/ Lose(p)))
    /\ \A b \in Browsers : WF_vars(Hear(b)) /\ WF_vars(Connect(b)) /\ WF_vars(Register(b))

Spec == Init /\ [][Next]_vars /\ Fairness
-----------------------------------------------------------------------------
TypeOK ==
    /\ saved \in Maps /\ puts \in Seq(Puts) /\ overlapped \in BOOLEAN
    /\ conn \in [Browsers -> {"off", "greeted", "on"}]
    /\ frames \in [Browsers -> Seq(Maps)]
    /\ carStyles \in [Browsers -> Maps]
    /\ strayed \in [Browsers -> BOOLEAN] /\ missed \in [Browsers -> BOOLEAN]

(* A connected page with nothing under way knows the server's map, its own *)
(* picks and the others' alike, unless a PUT overlapped another one or the *)
(* page's greeting (hub.go:192, 241), or one of its own failed             *)
(* (main.js:100).                                                          *)
AtRest(b) ==
    /\ conn[b] = "on" /\ frames[b] = <<>> /\ Mine(b) = {} /\ Halfway = {}
    /\ ~overlapped /\ ~missed[b] /\ ~strayed[b]
Agreed == \A b \in Browsers : AtRest(b) => carStyles[b] = saved

(* Devices that stay connected end with one map, the server's, whatever    *)
(* came before (DESIGN.md:235).                                            *)
Clean == ~overlapped /\ \A b \in Browsers : ~missed[b] /\ ~strayed[b]
Connected == \A b \in Browsers : conn[b] # "off"
Settles == <>[](Clean /\ Connected) => <>[](\A b \in Browsers : carStyles[b] = saved)
=============================================================================
