-------------------------------- MODULE Hub ---------------------------------
(***************************************************************************)
(* hub.go and udp.go: UDP packets, status frames and style maps fanned out *)
(* to WebSocket clients.  Goroutines: the UDP reader, the status ticker,   *)
(* one handler per connection, one per PUT of a car style.  They share the *)
(* client map under an RWMutex, the atomic nclients, the style store, and  *)
(* one bounded channel per client.                                         *)
(*                                                                         *)
(* A packet is its number in order of arrival, the style map its version:  *)
(* the number of edits accepted so far (StyleStore has the edit itself).   *)
(* Packet statistics, the payload of a status frame, are left out.         *)
(***************************************************************************)
EXTENDS Naturals, Sequences, FiniteSets

CONSTANTS
    Conns,         \* WebSocket connections; a browser that reconnects is a new one
    Putters,       \* goroutines serving PUT /api/styles/{car}
    Udp, Status,   \* the goroutines runUDP and runStatus
    ClientBuffer,  \* clientBuffer, the capacity of a client's channel
    MinPacket, MaxPacket, Sizes,  \* the packet filter, and the sizes tried
    InPlace,       \* bytes that still live in the reader's buffer
    MaxArrivals,   \* bound: datagrams that arrive
    MaxVersion     \* bound: style maps

Casters == {Udp, Status} \cup Putters

ASSUME ClientBufferPositive == ClientBuffer \in Nat \ {0}
ASSUME SizesAreNumbers == Sizes \subseteq Nat /\ MinPacket \in Nat /\ MaxPacket \in Nat
ASSUME CasterNames == Udp # Status /\ {Udp, Status} \cap Putters = {}
ASSUME InPlaceIsNoNumber == InPlace \notin Nat
ASSUME ConnsFinite == IsFiniteSet(Conns)
ASSUME Bounds == MaxArrivals \in Nat /\ MaxVersion \in Nat \ {0}

(* Frames and goroutines that are out of scope are reset, so that states    *)
(* differ only in what the program can still use.                          *)
VARIABLES
    arrived,   \* datagrams read so far
    buf,       \* runUDP's buffer: the datagram it holds
    version,   \* the style map in the store
    clients,   \* h.clients
    nclients,  \* h.nclients
    chan,      \* c.send of each connection
    hpc,       \* where the handler of each connection is
    out,       \* the frame it took off the channel and is writing
    net,       \* the peer: reading, not reading, or gone and known to be
    seen,      \* what the browser has been sent (see Fanout)
    pc,        \* where each broadcasting goroutine is
    msg,       \* the frame it broadcasts
    todo,      \* the clients its range over h.clients has still to visit
    mine,      \* the version each PUT made
    queued,    \* history: newest map ever put in each channel
    missed     \* history: why a map did not get into each channel

fanout == <<arrived, buf, version>>
registry == <<clients, nclients>>
handlers == <<hpc, out, net, seen>>
casters == <<pc, msg, todo, mine>>
history == <<queued, missed>>
vars == <<fanout, registry, chan, handlers, casters, history>>

Packet(data) == [kind |-> "packet", data |-> data]
Styles(v) == [kind |-> "styles", data |-> v]
StatusFrame == [kind |-> "status", data |-> 0]
Frames == [kind : {"packet", "styles", "status"}, data : Nat]

Init ==
    /\ arrived = 0 /\ buf = 0 /\ version = 1
    /\ clients = {} /\ nclients = 0
    /\ chan = [c \in Conns |-> <<>>]
    /\ hpc = [c \in Conns |-> "off"]
    /\ out = [c \in Conns |-> StatusFrame]
    /\ net = [c \in Conns |-> "up"]
    /\ seen = [c \in Conns |-> [packet |-> 0, packets |-> 0, styles |-> 0]]
    /\ pc = [t \in Casters |-> "idle"]
    /\ msg = [t \in Casters |-> StatusFrame]
    /\ todo = [t \in Casters |-> {}]
    /\ mine = [p \in Putters |-> 0]
    /\ queued = [c \in Conns |-> 0]
    /\ missed = [c \in Conns |-> {}]

(* Goroutines that hold the read lock of h.mu. *)
Readers == {t \in Casters : pc[t] = "send"}

-----------------------------------------------------------------------------
(* broadcast(): under the read lock, one non-blocking send per client in   *)
(* the order the map iteration happens to take.                            *)
Lock(t) ==
    /\ pc[t] = "cast"
    /\ pc' = [pc EXCEPT ![t] = "send"]
    /\ todo' = [todo EXCEPT ![t] = clients]
    /\ UNCHANGED <<fanout, registry, chan, handlers, msg, mine, history>>

Room(c) == Len(chan[c]) < ClientBuffer

Enqueue(t, c) ==
    /\ chan' = [chan EXCEPT ![c] = Append(@, msg[t])]
    /\ queued' = [queued EXCEPT ![c] = IF msg[t].kind = "styles" /\ msg[t].data > @
                                       THEN msg[t].data ELSE @]
    /\ UNCHANGED missed

Drop(t, c) ==
    /\ missed' = [missed EXCEPT ![c] = IF msg[t].kind = "styles" THEN @ \cup {"full"} ELSE @]
    /\ UNCHANGED <<chan, queued>>

(* Bug: a style map is too dear to drop and waits for room. *)
SendBlocking(t, c) ==
    /\ pc[t] = "send"
    /\ c \in todo[t]
    /\ todo' = [todo EXCEPT ![t] = @ \ {c}]
    /\ \/ Room(c) /\ Enqueue(t, c)
       \/ ~Room(c) /\ msg[t].kind # "styles" /\ Drop(t, c)
    /\ UNCHANGED <<fanout, registry, handlers, pc, msg, mine>>

Send(t, c) ==
    /\ pc[t] = "send"
    /\ c \in todo[t]
    /\ todo' = [todo EXCEPT ![t] = @ \ {c}]
    /\ \/ Room(c) /\ Enqueue(t, c)
       \/ ~Room(c) /\ Drop(t, c)
    /\ UNCHANGED <<fanout, registry, handlers, pc, msg, mine>>

Unlock(t) ==
    /\ pc[t] = "send"
    /\ todo[t] = {}
    /\ pc' = [pc EXCEPT ![t] = IF t \in Putters THEN "answer" ELSE "idle"]
    /\ msg' = [msg EXCEPT ![t] = StatusFrame]
    /\ UNCHANGED <<fanout, registry, chan, handlers, todo, mine, history>>

-----------------------------------------------------------------------------
(* runUDP: ReadFromUDPAddrPort into the one buffer; sizes that no Forza    *)
(* format has go no further than the forwarder.                            *)
Read(size) ==
    /\ pc[Udp] = "idle"
    /\ arrived < MaxArrivals
    /\ arrived' = arrived + 1
    /\ buf' = arrived'
    /\ pc' = [pc EXCEPT ![Udp] = IF size \in MinPacket .. MaxPacket THEN "packet" ELSE "idle"]
    /\ UNCHANGED <<version, registry, chan, handlers, msg, todo, mine, history>>

(* Bug: the frame keeps the reader's slice instead of a copy of it. *)
CloneNot(bytes) == InPlace

Clone(bytes) == bytes

(* packet(): without clients nothing is copied; else a copy is broadcast. *)
Relay ==
    /\ pc[Udp] = "packet"
    /\ IF nclients = 0
       THEN pc' = [pc EXCEPT ![Udp] = "idle"] /\ UNCHANGED msg
       ELSE /\ pc' = [pc EXCEPT ![Udp] = "cast"]
            /\ msg' = [msg EXCEPT ![Udp] = Packet(Clone(buf))]
    /\ UNCHANGED <<fanout, registry, chan, handlers, todo, mine, history>>

(* runStatus: once a second, if anyone is connected. *)
Tick ==
    /\ pc[Status] = "idle"
    /\ pc' = [pc EXCEPT ![Status] = IF nclients = 0 THEN "idle" ELSE "cast"]
    /\ msg' = [msg EXCEPT ![Status] = StatusFrame]
    /\ UNCHANGED <<fanout, registry, chan, handlers, todo, mine, history>>

-----------------------------------------------------------------------------
(* putStyle: the edit, a snapshot of the map as it is by then, the         *)
(* broadcast, 204.                                                         *)
SetStyle(p) ==
    /\ pc[p] = "idle"
    /\ version < MaxVersion
    /\ version' = version + 1
    /\ mine' = [mine EXCEPT ![p] = version']
    /\ pc' = [pc EXCEPT ![p] = "snapshot"]
    /\ missed' = [c \in Conns |-> IF hpc[c] = "add" THEN missed[c] \cup {"connecting"}
                                  ELSE missed[c]]
    /\ UNCHANGED <<arrived, buf, registry, chan, handlers, msg, todo, queued>>

(* Bug: the map is marshalled before the edit. *)
SnapshotBeforeEdit(p) ==
    /\ pc[p] = "snapshot"
    /\ msg' = [msg EXCEPT ![p] = Styles(mine[p] - 1)]
    /\ pc' = [pc EXCEPT ![p] = "cast"]
    /\ UNCHANGED <<fanout, registry, chan, handlers, todo, mine, history>>

Snapshot(p) ==
    /\ pc[p] = "snapshot"
    /\ msg' = [msg EXCEPT ![p] = Styles(version)]
    /\ pc' = [pc EXCEPT ![p] = "cast"]
    /\ UNCHANGED <<fanout, registry, chan, handlers, todo, mine, history>>

Answer(p) ==
    /\ pc[p] = "answer"
    /\ pc' = [pc EXCEPT ![p] = "idle"]
    /\ UNCHANGED <<fanout, registry, chan, handlers, msg, todo, mine, history>>

-----------------------------------------------------------------------------
(* serveWS: Accept and CloseRead. *)
Accept(c) ==
    /\ hpc[c] = "off"
    /\ hpc' = [hpc EXCEPT ![c] = "styles"]
    /\ UNCHANGED <<fanout, registry, chan, out, net, seen, casters, history>>

(* Bug: the client is registered before it has its first frame. *)
FirstFrameSkipped(c) ==
    /\ hpc[c] = "styles"
    /\ hpc' = [hpc EXCEPT ![c] = "add"]
    /\ UNCHANGED <<fanout, registry, chan, out, net, seen, casters, history>>

(* The first frame goes into the channel before anyone else knows it. *)
FirstFrame(c) ==
    /\ hpc[c] = "styles"
    /\ chan' = [chan EXCEPT ![c] = <<Styles(version)>>]
    /\ queued' = [queued EXCEPT ![c] = version]
    /\ hpc' = [hpc EXCEPT ![c] = "add"]
    /\ UNCHANGED <<fanout, registry, out, net, seen, casters, missed>>

(* add() and remove() (below): the write lock waits for every reader. *)
Add(c) ==
    /\ hpc[c] = "add"
    /\ Readers = {}
    /\ clients' = clients \cup {c}
    /\ nclients' = Cardinality(clients')
    /\ hpc' = [hpc EXCEPT ![c] = "select"]
    /\ UNCHANGED <<fanout, chan, out, net, seen, casters, history>>

Take(c) ==
    /\ hpc[c] = "select"
    /\ chan[c] # <<>>
    /\ out' = [out EXCEPT ![c] = Head(chan[c])]
    /\ chan' = [chan EXCEPT ![c] = Tail(@)]
    /\ hpc' = [hpc EXCEPT ![c] = "write"]
    /\ UNCHANGED <<fanout, registry, net, seen, casters, history>>

Done(c) ==
    /\ hpc[c] = "select"
    /\ net[c] = "gone"
    /\ hpc' = [hpc EXCEPT ![c] = "remove"]
    /\ UNCHANGED <<fanout, registry, chan, out, net, seen, casters, history>>

(* The bytes a frame carries by the time they are written. *)
Bytes(f) == IF f.data = InPlace THEN buf ELSE f.data

Written(c, f) ==
    CASE f.kind = "packet" -> [seen[c] EXCEPT !.packet = Bytes(f), !.packets = @ + 1]
      [] f.kind = "styles" -> [seen[c] EXCEPT !.styles = Bytes(f)]
      [] f.kind = "status" -> seen[c]

Write(c) ==
    /\ hpc[c] = "write"
    /\ net[c] = "up"
    /\ seen' = [seen EXCEPT ![c] = Written(c, out[c])]
    /\ out' = [out EXCEPT ![c] = StatusFrame]
    /\ hpc' = [hpc EXCEPT ![c] = "select"]
    /\ UNCHANGED <<fanout, registry, chan, net, casters, history>>

(* Bug: the write has no timeout, only the connection's context. *)
WriteWaits(c) ==
    /\ hpc[c] = "write"
    /\ net[c] = "gone"
    /\ out' = [out EXCEPT ![c] = StatusFrame]
    /\ hpc' = [hpc EXCEPT ![c] = "remove"]
    /\ UNCHANGED <<fanout, registry, chan, net, seen, casters, history>>

(* The write timed out, or its context ended with the connection. *)
WriteFails(c) ==
    /\ hpc[c] = "write"
    /\ net[c] # "up"
    /\ out' = [out EXCEPT ![c] = StatusFrame]
    /\ hpc' = [hpc EXCEPT ![c] = "remove"]
    /\ UNCHANGED <<fanout, registry, chan, net, seen, casters, history>>

(* Bug: remove() writes the client map while a broadcast ranges over it. *)
RemoveUnlocked(c) ==
    /\ hpc[c] = "remove"
    /\ clients' = clients \ {c}
    /\ nclients' = Cardinality(clients')
    /\ chan' = [chan EXCEPT ![c] = <<>>]
    /\ hpc' = [hpc EXCEPT ![c] = "done"]
    /\ UNCHANGED <<fanout, out, net, seen, casters, history>>

Remove(c) == Readers = {} /\ RemoveUnlocked(c)

(* The peer stops reading, reads again, or goes away.  A device that       *)
(* vanishes without closing its connection is one that never reads again.  *)
Peer(c) ==
    /\ hpc[c] \notin {"off", "done"}
    /\ net[c] # "gone"
    /\ \E n \in {"up", "asleep", "gone"} \ {net[c]} : net' = [net EXCEPT ![c] = n]
    /\ UNCHANGED <<fanout, registry, chan, hpc, out, seen, casters, history>>

-----------------------------------------------------------------------------
Cast(t) == Lock(t) \/ (\E c \in Conns : Send(t, c)) \/ Unlock(t)
Put(p) == Snapshot(p) \/ Answer(p)
Handle(c) == FirstFrame(c) \/ Take(c) \/ Done(c) \/ Write(c) \/ WriteFails(c)

Next ==
    \/ \E t \in Casters : Cast(t)
    \/ \E size \in Sizes : Read(size)
    \/ Relay
    \/ Tick
    \/ \E p \in Putters : SetStyle(p) \/ Put(p)
    \/ \E c \in Conns : Accept(c) \/ Handle(c) \/ Add(c) \/ Remove(c) \/ Peer(c)

(* Goroutines run, timers fire; a writer that waits for h.mu gets it       *)
(* although readers come and go (Go's RWMutex lets it past them).  Nothing *)
(* is assumed of the game, the peers or the users.                         *)
Fairness ==
    /\ \A t \in Casters : WF_vars(Cast(t))
    /\ WF_vars(Relay)
    /\ WF_vars(Tick)
    /\ \A p \in Putters : WF_vars(Put(p))
    /\ \A c \in Conns : WF_vars(Handle(c)) /\ SF_vars(Add(c) \/ Remove(c))

Spec == Init /\ [][Next]_vars /\ Fairness
-----------------------------------------------------------------------------
TypeOK ==
    /\ arrived \in Nat /\ buf \in Nat /\ version \in Nat
    /\ clients \subseteq Conns
    /\ nclients \in Nat
    /\ chan \in [Conns -> Seq(Frames)]
    /\ hpc \in [Conns -> {"off", "styles", "add", "select", "write", "remove", "done"}]
    /\ out \in [Conns -> Frames]
    /\ net \in [Conns -> {"up", "asleep", "gone"}]
    /\ seen \in [Conns -> [packet : Nat, packets : Nat, styles : Nat]]
    /\ pc \in [Casters -> {"idle", "packet", "snapshot", "cast", "send", "answer"}]
    /\ msg \in [Casters -> Frames]
    /\ todo \in [Casters -> SUBSET Conns]
    /\ mine \in [Putters -> Nat]
    /\ queued \in [Conns -> Nat]
    /\ missed \in [Conns -> SUBSET {"full", "connecting"}]

(* No goroutine ranges over the client map while another changes it, which *)
(* Go answers by ending the process: every client a broadcast has still to *)
(* visit is still registered (hub.go:92-101 against 84-90).                *)
NoMapRace == \A t \in Casters : todo[t] \subseteq clients

(* When a PUT is answered, every client registered then has the new map,   *)
(* or a newer one, in its channel or its browser, unless its channel was   *)
(* full, or its handler stood between its first frame and its registration *)
(* when the map changed (hub.go:192-193).                                  *)
AnsweredMeansQueued ==
    \A p \in Putters, c \in clients :
        pc[p] = "answer" => queued[c] >= mine[p] \/ missed[c] # {}

(* Every browser gets the style map first, then a subsequence of the       *)
(* packets in order, each whole and at most once.                          *)
Browsers == INSTANCE Fanout
HubIsFanout == Browsers!Spec

(* A broadcast always ends, whatever the peers do: a sleeping device never *)
(* holds up the game's packets or anyone else (hub.go:32-34).              *)
BroadcastEnds == \A t \in Casters : pc[t] = "cast" ~> pc[t] \in {"idle", "answer"}

(* A device that stopped reading for good, or went away, is unregistered   *)
(* in the end, even when the game is off: the status frame of every second *)
(* fills its channel until a write times out (hub.go:122-123).             *)
DeadClientLeaves == \A c \in Conns : net[c] # "up" ~> net[c] = "up" \/ hpc[c] = "done"

(* A map is pushed to every client on every change (DESIGN.md:78): when a  *)
(* PUT is answered, every registered client whose channel had room has it. *)
ChangeReachesEveryClient ==
    \A p \in Putters, c \in clients : pc[p] = "answer" => queued[c] >= mine[p] \/ "full" \in missed[c]

(* putStyle pushes the updated map (hub.go:227): a browser is never sent   *)
(* an older map after a newer one.                                         *)
MapsNeverGoBack == [][\A c \in Conns : seen'[c].styles >= seen[c].styles]_seen
=============================================================================
