----------------------------- MODULE HubProofs ------------------------------
(***************************************************************************)
(* For any number of connections and PUT handlers, any channel size and    *)
(* any bounds: no goroutine ranges over a client map that changes, an      *)
(* answered change is queued for every client that could take it, and the  *)
(* hub implements Fanout.  And what the code does not promise, it keeps    *)
(* outside two windows: between a client's first frame and registration,   *)
(* and while two PUTs overlap.                                             *)
(***************************************************************************)
EXTENDS Hub, FiniteSetTheorems, TLAPS

(* The packets of s are numbered in increasing order, above lo and up to hi. *)
Ordered(s, lo, hi) ==
    /\ \A i \in 1 .. Len(s) : s[i].kind = "packet" => lo < s[i].data /\ s[i].data <= hi
    /\ \A i, j \in 1 .. Len(s) :
          i < j /\ s[i].kind = "packet" /\ s[j].kind = "packet" => s[i].data < s[j].data

(* What a frame of a channel is made of. *)
LEMMA FrameData ==
    /\ \A f \in Frames : f.data \in Nat /\ f.kind \in {"packet", "styles", "status"}
    /\ \A s \in Seq(Frames) : \A i \in 1 .. Len(s) : s[i] \in Frames
<1>1. \A f \in Frames : f.data \in Nat /\ f.kind \in {"packet", "styles", "status"}
  BY DEF Frames
<1> QED
  BY <1>1

(* A frame that is appended comes last and moves no other. *)
LEMMA AppendFacts ==
    ASSUME NEW s \in Seq(Frames), NEW f \in Frames
    PROVE  /\ Len(Append(s, f)) = Len(s) + 1 /\ Append(s, f)[Len(s) + 1] = f
           /\ \A i \in 1 .. Len(s) : Append(s, f)[i] = s[i]
           /\ \A i \in 1 .. Len(Append(s, f)) : i = Len(s) + 1 \/ i \in 1 .. Len(s)
           /\ s # <<>> => Append(s, f) # <<>> /\ 1 \in 1 .. Len(s)
OBVIOUS

(* An empty channel is in order. *)
LEMMA OrderedNone ==
    ASSUME NEW lo \in Nat, NEW hi \in Nat
    PROVE  Ordered(<<>>, lo, hi)
BY DEF Ordered

(* Newer packets elsewhere do not disturb a channel. *)
LEMMA OrderedWiden ==
    ASSUME NEW s \in Seq(Frames), NEW lo \in Nat, NEW hi \in Nat, NEW hi2 \in Nat,
           hi <= hi2, Ordered(s, lo, hi)
    PROVE  Ordered(s, lo, hi2)
<1>1. \A i \in 1 .. Len(s) : s[i].data \in Nat
  BY FrameData
<1> QED
  BY <1>1 DEF Ordered

(* A packet newer than all of them goes to the end; other frames fit anywhere. *)
LEMMA OrderedAppend ==
    ASSUME NEW s \in Seq(Frames), NEW f \in Frames, NEW lo \in Nat, NEW hi \in Nat, NEW hi2 \in Nat,
           hi <= hi2, lo <= hi, Ordered(s, lo, hi),
           f.kind = "packet" => hi < f.data /\ f.data <= hi2
    PROVE  Ordered(Append(s, f), lo, hi2)
<1> DEFINE r == Append(s, f)
<1>1. Len(r) = Len(s) + 1 /\ r[Len(s) + 1] = f /\ \A i \in 1 .. Len(s) : r[i] = s[i]
  BY AppendFacts
<1>2. f.data \in Nat /\ \A i \in 1 .. Len(s) : s[i].data \in Nat
  BY FrameData
<1>3. \A i \in 1 .. Len(r) : r[i].kind = "packet" => lo < r[i].data /\ r[i].data <= hi2
  BY <1>1, <1>2 DEF Ordered
<1>4. ASSUME NEW i \in 1 .. Len(r), NEW j \in 1 .. Len(r), i < j,
             r[i].kind = "packet", r[j].kind = "packet"
      PROVE  r[i].data < r[j].data
  <2>1. i \in 1 .. Len(s) /\ r[i] = s[i] /\ s[i].data <= hi
    BY <1>1, <1>4 DEF Ordered
  <2>2. CASE j = Len(s) + 1
    BY <1>1, <1>2, <1>4, <2>1, <2>2
  <2>3. CASE j \in 1 .. Len(s)
    BY <1>1, <1>4, <2>1, <2>3 DEF Ordered
  <2> QED
    BY <1>1, <2>2, <2>3
<1> QED
  BY <1>3, <1>4 DEF Ordered

(* What follows the head is newer than the head. *)
LEMMA OrderedTail ==
    ASSUME NEW s \in Seq(Frames), NEW lo \in Nat, NEW hi \in Nat, s # <<>>, Ordered(s, lo, hi)
    PROVE  /\ Head(s) \in Frames
           /\ Head(s).kind = "packet" => lo < Head(s).data /\ Head(s).data <= hi
           /\ Ordered(Tail(s), IF Head(s).kind = "packet" THEN Head(s).data ELSE lo, hi)
<1>1. Head(s) = s[1] /\ 1 \in 1 .. Len(s) /\ s[1] \in Frames
  OBVIOUS
<1>2. Len(Tail(s)) = Len(s) - 1 /\ \A i \in 1 .. Len(Tail(s)) : Tail(s)[i] = s[i + 1] /\ i + 1 \in 1 .. Len(s)
  OBVIOUS
<1> QED
  BY <1>1, <1>2 DEF Ordered

-----------------------------------------------------------------------------
(* The newest packet this goroutine still has to queue for c is the newest *)
(* packet of all, so everything queued for c before is older.              *)
Pending(c) == pc[Udp] \in {"packet", "cast"} \/ (pc[Udp] = "send" /\ c \in todo[Udp])

Newest(c) == IF Pending(c) THEN arrived - 1 ELSE arrived

(* The last packet that is on its way out of the channel of c. *)
Writing(c) == hpc[c] = "write" /\ out[c].kind = "packet"
Last(c) == IF Writing(c) THEN out[c].data ELSE seen[c].packet

(* A map that is sent is a map the store has held. *)
Held(f) == f.kind = "styles" => f.data \in 1 .. version

MessageInv ==
    /\ buf = arrived
    /\ pc[Udp] \in {"packet", "cast", "send"} => arrived > 0
    /\ \A t \in Casters : pc[t] \in {"cast", "send"} =>
          IF t = Udp THEN msg[t] = Packet(arrived)
          ELSE msg[t].kind # "packet" /\ Held(msg[t])

ChannelInv(c) ==
    /\ \A i \in 1 .. Len(chan[c]) : Held(chan[c][i])
    /\ Last(c) <= Newest(c)
    /\ Ordered(chan[c], Last(c), Newest(c))
    /\ hpc[c] = "write" => Held(out[c])
    /\ Writing(c) => seen[c].packet < out[c].data

(* Until a browser has its first map, that map is the next frame. *)
FirstInv(c) ==
    seen[c].styles = 0 /\ hpc[c] \in {"add", "select", "write"} =>
        IF hpc[c] = "write" THEN out[c].kind = "styles"
        ELSE chan[c] # <<>> /\ chan[c][1].kind = "styles"

LockInv == \A t \in Casters : todo[t] # {} => pc[t] = "send"

IInv ==
    /\ TypeOK /\ version > 0
    /\ LockInv /\ NoMapRace
    /\ MessageInv
    /\ \A c \in Conns : ChannelInv(c) /\ FirstInv(c)

(* The reader and the ticker are two of the broadcasters. *)
LEMMA CasterFacts == Udp \in Casters /\ Status \in Casters /\ Udp # Status
                     /\ Putters \subseteq Casters /\ Udp \notin Putters /\ Status \notin Putters
BY CasterNames DEF Casters

(* The frames the hub makes are frames. *)
LEMMA FrameTypes ==
    /\ StatusFrame \in Frames
    /\ \A n \in Nat : Packet(n) \in Frames /\ Styles(n) \in Frames
BY DEF StatusFrame, Packet, Styles, Frames

(* InPlace is no number, so a frame's bytes are what was copied into it. *)
LEMMA WrittenType ==
    ASSUME TypeOK, NEW c \in Conns
    PROVE  /\ Written(c, out[c]) \in [packet : Nat, packets : Nat, styles : Nat]
           /\ Bytes(out[c]) = out[c].data
<1>1. out[c] \in Frames /\ seen[c] \in [packet : Nat, packets : Nat, styles : Nat]
  BY DEF TypeOK
<1>2. out[c].data \in Nat /\ out[c].kind \in {"packet", "styles", "status"}
  BY <1>1, FrameData
<1>3. Bytes(out[c]) = out[c].data
  BY <1>2, InPlaceIsNoNumber DEF Bytes
<1>4. seen[c].packets + 1 \in Nat
  BY <1>1
<1>5. CASE out[c].kind = "packet"
  <2>1. Written(c, out[c]) = [seen[c] EXCEPT !.packet = out[c].data, !.packets = @ + 1]
    BY <1>3, <1>5 DEF Written
  <2> QED BY <1>1, <1>2, <1>3, <1>4, <2>1
<1>6. CASE out[c].kind # "packet"
  BY <1>1, <1>2, <1>3, <1>6 DEF Written
<1> QED BY <1>5, <1>6

(* Every action keeps every variable in its type. *)
LEMMA StepKeepsType ==
    ASSUME TypeOK, [Next]_vars
    PROVE  TypeOK'
<1>1. ASSUME NEW t \in Casters, Lock(t) PROVE TypeOK'
  BY <1>1 DEF TypeOK, Lock, fanout, registry, handlers, casters, history
<1>2. ASSUME NEW t \in Casters, NEW c \in Conns, Send(t, c) PROVE TypeOK'
  <2>1. msg[t] \in Frames /\ Append(chan[c], msg[t]) \in Seq(Frames) /\ msg[t].data \in Nat
    BY FrameData DEF TypeOK
  <2>2. missed[c] \cup {"full"} \in SUBSET {"full", "connecting"}
    BY DEF TypeOK
  <2>3. CASE Enqueue(t, c)
    BY <1>2, <2>1, <2>3 DEF TypeOK, Send, Enqueue, fanout, registry, handlers
  <2>4. CASE Drop(t, c)
    <3>1. missed' \in [Conns -> SUBSET {"full", "connecting"}]
      BY <2>2, <2>4 DEF TypeOK, Drop
    <3> QED
      BY <1>2, <2>4, <3>1 DEF TypeOK, Send, Drop, fanout, registry, handlers
  <2> QED
    BY <1>2, <2>3, <2>4 DEF Send
<1>3. ASSUME NEW t \in Casters, Unlock(t) PROVE TypeOK'
  BY FrameTypes, <1>3 DEF TypeOK, Unlock, fanout, registry, handlers, casters, history
<1>4. ASSUME NEW size \in Sizes, Read(size) PROVE TypeOK'
  BY CasterFacts, SizesAreNumbers, <1>4 DEF TypeOK, Read, fanout, registry, handlers, casters, history
<1>5. ASSUME Relay PROVE TypeOK'
  <2>1. pc' \in [Casters -> {"idle", "packet", "snapshot", "cast", "send", "answer"}]
    BY <1>5, CasterFacts DEF TypeOK, Relay
  <2>2. Packet(buf) \in Frames
    BY FrameTypes DEF TypeOK
  <2>3. msg' \in [Casters -> Frames]
    BY <1>5, <2>2, CasterFacts DEF TypeOK, Relay, Clone
  <2> QED
    BY <1>5, <2>1, <2>3 DEF TypeOK, Relay, fanout, registry, handlers, casters, history
<1>6. ASSUME Tick PROVE TypeOK'
  BY FrameTypes, CasterFacts, <1>6 DEF TypeOK, Tick, fanout, registry, handlers, casters, history
<1>7. ASSUME NEW p \in Putters, SetStyle(p) PROVE TypeOK'
  BY CasterFacts, <1>7 DEF TypeOK, SetStyle, fanout, registry, handlers, casters, history
<1>8. ASSUME NEW p \in Putters, Snapshot(p) PROVE TypeOK'
  BY FrameTypes, CasterFacts, <1>8 DEF TypeOK, Snapshot, fanout, registry, handlers, casters, history
<1>9. ASSUME NEW p \in Putters, Answer(p) PROVE TypeOK'
  BY CasterFacts, <1>9 DEF TypeOK, Answer, fanout, registry, handlers, casters, history
<1>10. ASSUME NEW c \in Conns, Accept(c) PROVE TypeOK'
  BY <1>10 DEF TypeOK, Accept, fanout, registry, handlers, casters, history
<1>11. ASSUME NEW c \in Conns, FirstFrame(c) PROVE TypeOK'
  BY FrameTypes, <1>11 DEF TypeOK, FirstFrame, fanout, registry, handlers, casters, history
<1>12. ASSUME NEW c \in Conns, Take(c) PROVE TypeOK'
  BY <1>12 DEF TypeOK, Take, fanout, registry, handlers, casters, history
<1>13. ASSUME NEW c \in Conns, Done(c) PROVE TypeOK'
  BY <1>13 DEF TypeOK, Done, fanout, registry, handlers, casters, history
<1>14. ASSUME NEW c \in Conns, Write(c) PROVE TypeOK'
  BY WrittenType, FrameTypes, <1>14 DEF TypeOK, Write, fanout, registry, handlers, casters, history
<1>15. ASSUME NEW c \in Conns, WriteFails(c) PROVE TypeOK'
  BY FrameTypes, <1>15 DEF TypeOK, WriteFails, fanout, registry, handlers, casters, history
<1>16. ASSUME NEW c \in Conns, Add(c) PROVE TypeOK'
  <2>1. Cardinality(clients \cup {c}) \in Nat
    BY ConnsFinite, FS_Subset, FS_CardinalityType DEF TypeOK
  <2> QED
    BY <1>16, <2>1 DEF TypeOK, Add, fanout, registry, handlers, casters, history
<1>17. ASSUME NEW c \in Conns, Remove(c) PROVE TypeOK'
  <2>1. Cardinality(clients \ {c}) \in Nat
    BY ConnsFinite, FS_Subset, FS_CardinalityType DEF TypeOK
  <2> QED
    BY <1>17, <2>1 DEF TypeOK, Remove, RemoveUnlocked, fanout, registry, handlers, casters, history
<1>18. ASSUME NEW c \in Conns, Peer(c) PROVE TypeOK'
  BY <1>18 DEF TypeOK, Peer, fanout, registry, handlers, casters, history
<1>19. CASE UNCHANGED vars
  BY <1>19 DEF TypeOK, vars, fanout, registry, handlers, casters, history
<1> QED
  BY <1>1, <1>2, <1>3, <1>4, <1>5, <1>6, <1>7, <1>8, <1>9, <1>10,
     <1>11, <1>12, <1>13, <1>14, <1>15, <1>16, <1>17, <1>18, <1>19
  DEF Next, Cast, Put, Handle, vars


(* A goroutine visits only registered clients: it takes them from the map  *)
(* under the read lock, and nobody is removed while any of them holds it.  *)
LEMMA StepKeepsLocks ==
    ASSUME TypeOK, LockInv, NoMapRace, [Next]_vars
    PROVE  LockInv' /\ NoMapRace'
<1>1. ASSUME NEW t \in Casters, Lock(t) PROVE LockInv' /\ NoMapRace'
  BY <1>1 DEF TypeOK, LockInv, NoMapRace, Lock, registry
<1>2. ASSUME NEW t \in Casters, NEW c \in Conns, Send(t, c) PROVE LockInv' /\ NoMapRace'
  BY <1>2 DEF TypeOK, LockInv, NoMapRace, Send, registry
<1>3. ASSUME NEW t \in Casters, Unlock(t) PROVE LockInv' /\ NoMapRace'
  BY <1>3 DEF TypeOK, LockInv, NoMapRace, Unlock, registry
<1>4. ASSUME NEW t \in Casters, NEW q, pc[t] # "send", pc' = [pc EXCEPT ![t] = q],
             UNCHANGED <<todo, clients>>
      PROVE  LockInv' /\ NoMapRace'
  BY <1>4 DEF TypeOK, LockInv, NoMapRace
<1>5. ASSUME NEW size \in Sizes, Read(size) PROVE LockInv' /\ NoMapRace'
  BY <1>4, <1>5, CasterFacts DEF Read, registry
<1>6. CASE Relay
  <2>1. PICK q : pc' = [pc EXCEPT ![Udp] = q]
    BY <1>6 DEF Relay
  <2> QED
    BY <1>4, <1>6, <2>1, CasterFacts DEF Relay, registry
<1>7. CASE Tick
  BY <1>4, <1>7, CasterFacts DEF Tick, registry
<1>8. ASSUME NEW p \in Putters, SetStyle(p) \/ Snapshot(p) \/ Answer(p) PROVE LockInv' /\ NoMapRace'
  BY <1>4, <1>8, CasterFacts DEF SetStyle, Snapshot, Answer, registry
<1>9. ASSUME NEW c \in Conns, Add(c) PROVE LockInv' /\ NoMapRace'
  BY <1>9 DEF LockInv, NoMapRace, Add, casters
<1>10. ASSUME NEW c \in Conns, Remove(c) PROVE LockInv' /\ NoMapRace'
  BY <1>10 DEF LockInv, NoMapRace, Remove, RemoveUnlocked, Readers, casters
<1>11. ASSUME UNCHANGED <<registry, casters>> PROVE LockInv' /\ NoMapRace'
  BY <1>11 DEF LockInv, NoMapRace, registry, casters
<1>12. ASSUME NEW c \in Conns,
              Accept(c) \/ FirstFrame(c) \/ Take(c) \/ Done(c) \/ Write(c) \/ WriteFails(c) \/ Peer(c)
       PROVE  UNCHANGED <<registry, casters>>
  BY <1>12 DEF Accept, FirstFrame, Take, Done, Write, WriteFails, Peer
<1>13. CASE UNCHANGED vars
  BY <1>11, <1>13 DEF vars
<1> QED
  BY <1>1, <1>2, <1>3, <1>5, <1>6, <1>7, <1>8, <1>9, <1>10, <1>11, <1>12, <1>13
  DEF Next, Cast, Put, Handle

(* What is broadcast: the reader sends the packet its buffer holds, the    *)
(* others never a packet, and every map was once the store's.              *)
LEMMA StepKeepsMessages ==
    ASSUME TypeOK, version > 0, MessageInv, [Next]_vars
    PROVE  version' > 0 /\ MessageInv'
<1>0. version \in Nat /\ arrived \in Nat /\ pc \in [Casters -> {"idle", "packet", "snapshot", "cast", "send", "answer"}]
      /\ msg \in [Casters -> Frames]
  BY DEF TypeOK
<1>1. ASSUME NEW t \in Casters, Lock(t) PROVE MessageInv' /\ version' = version
  BY <1>0, <1>1 DEF MessageInv, Lock, fanout, Held, Packet
<1>2. ASSUME NEW t \in Casters, NEW c \in Conns, Send(t, c) PROVE MessageInv' /\ version' = version
  BY <1>0, <1>2 DEF MessageInv, Send, fanout, Held, Packet
<1>3. ASSUME NEW t \in Casters, Unlock(t) PROVE MessageInv' /\ version' = version
  BY <1>0, <1>3, CasterFacts DEF MessageInv, Unlock, fanout, Held, Packet
<1>4. ASSUME NEW size \in Sizes, Read(size) PROVE MessageInv' /\ version' = version
  BY <1>0, <1>4, CasterFacts DEF MessageInv, Read, Held, Packet
<1>5. CASE Relay
  BY <1>0, <1>5, CasterFacts DEF MessageInv, Relay, Clone, fanout, Held, Packet
<1>6. CASE Tick
  BY <1>0, <1>6, CasterFacts DEF MessageInv, Tick, StatusFrame, fanout, Held, Packet
<1>7. ASSUME NEW p \in Putters, SetStyle(p) PROVE MessageInv' /\ version' = version + 1
  BY <1>0, <1>7, CasterFacts DEF MessageInv, SetStyle, Held, Packet
<1>8. ASSUME NEW p \in Putters, Snapshot(p) PROVE MessageInv' /\ version' = version
  BY <1>0, <1>8, CasterFacts DEF MessageInv, Snapshot, Styles, fanout, Held, Packet
<1>9. ASSUME NEW p \in Putters, Answer(p) PROVE MessageInv' /\ version' = version
  BY <1>0, <1>9, CasterFacts DEF MessageInv, Answer, fanout, Held, Packet
<1>10. ASSUME UNCHANGED <<fanout, casters>> PROVE MessageInv' /\ version' = version
  BY <1>10 DEF MessageInv, fanout, casters, Held
<1>11. ASSUME NEW c \in Conns,
              Accept(c) \/ FirstFrame(c) \/ Take(c) \/ Done(c) \/ Write(c) \/ WriteFails(c)
              \/ Add(c) \/ Remove(c) \/ Peer(c)
       PROVE  UNCHANGED <<fanout, casters>>
  BY <1>11 DEF Accept, FirstFrame, Take, Done, Write, WriteFails, Add, Remove, RemoveUnlocked, Peer
<1>12. CASE UNCHANGED vars
  BY <1>10, <1>12 DEF vars
<1> QED
  BY <1>0, <1>1, <1>2, <1>3, <1>4, <1>5, <1>6, <1>7, <1>8, <1>9, <1>10, <1>11, <1>12
  DEF Next, Cast, Put, Handle

-----------------------------------------------------------------------------
(* The bounds of a channel's packets are numbers. *)
LEMMA ChannelTypes ==
    ASSUME TypeOK, MessageInv, NEW c \in Conns
    PROVE  /\ arrived \in Nat /\ version \in Nat
           /\ Newest(c) \in Nat /\ Newest(c) <= arrived
           /\ chan[c] \in Seq(Frames) /\ out[c] \in Frames
           /\ seen[c].packet \in Nat /\ seen[c].styles \in Nat
           /\ Last(c) \in Nat
<1>1. out[c] \in Frames /\ seen[c] \in [packet : Nat, packets : Nat, styles : Nat] /\ arrived \in Nat
  BY DEF TypeOK
<1>2. out[c].data \in Nat
  BY <1>1, FrameData
<1>3. Newest(c) \in Nat /\ Newest(c) <= arrived
  BY <1>1 DEF MessageInv, Newest, Pending
<1> QED
  BY <1>1, <1>2, <1>3 DEF TypeOK, Last

(* So is the upper one after a step. *)
LEMMA NewestTypeNext ==
    ASSUME TypeOK', MessageInv', NEW c \in Conns
    PROVE  Newest(c)' \in Nat
<1>1. arrived' \in Nat
  BY DEF TypeOK
<1>2. Pending(c)' => arrived' > 0
  BY DEF MessageInv, Pending
<1>3. ASSUME NEW n \in Nat, n > 0 PROVE n - 1 \in Nat
  BY <1>3
<1>4. Pending(c)' => arrived' - 1 \in Nat
  BY <1>1, <1>2, <1>3
<1> QED
  BY <1>1, <1>4, Zenon DEF Newest

(* A connection whose channel nobody touches stays well ordered, and so    *)
(* does one whose newest packet may only be newer.                         *)
LEMMA SameChannel ==
    ASSUME TypeOK, MessageInv, TypeOK', MessageInv', version <= version', NEW c \in Conns,
           ChannelInv(c), FirstInv(c), Newest(c) <= Newest(c)',
           UNCHANGED <<chan[c], out[c], seen[c]>>,
           hpc'[c] = "write" <=> hpc[c] = "write",
           hpc'[c] \in {"add", "select"} => hpc[c] \in {"add", "select"}
    PROVE  ChannelInv(c)' /\ FirstInv(c)'
<1>1. version \in Nat /\ version' \in Nat /\ Newest(c) \in Nat /\ Newest(c)' \in Nat
      /\ Last(c) \in Nat /\ chan[c] \in Seq(Frames)
  BY ChannelTypes, NewestTypeNext DEF TypeOK
<1>2. Last(c)' = Last(c) /\ Writing(c)' = Writing(c)
  BY DEF Last, Writing
<1>3. Ordered(chan[c], Last(c), Newest(c)')
  BY <1>1, OrderedWiden DEF ChannelInv
<1>4. ASSUME NEW f, Held(f) PROVE Held(f)'
  BY <1>1, <1>4 DEF Held
<1>5. ChannelInv(c)'
  BY <1>1, <1>2, <1>3, <1>4 DEF ChannelInv
<1>6. FirstInv(c)'
  BY DEF FirstInv
<1> QED
  BY <1>5, <1>6

(* A frame that finds room: if it is a packet, it is the newest, and it    *)
(* stops being pending for this channel.                                   *)
LEMMA SendKeepsChannel ==
    ASSUME TypeOK, MessageInv, LockInv, TypeOK', MessageInv', NEW c \in Conns, NEW t \in Casters,
           ChannelInv(c), FirstInv(c), Send(t, c), Enqueue(t, c)
    PROVE  ChannelInv(c)' /\ FirstInv(c)'
<1>0. /\ arrived \in Nat /\ version \in Nat /\ Newest(c) \in Nat /\ Newest(c)' \in Nat /\ Newest(c) <= arrived
      /\ Last(c) \in Nat /\ chan[c] \in Seq(Frames) /\ msg[t] \in Frames
  BY ChannelTypes, NewestTypeNext DEF TypeOK
<1>1. /\ chan'[c] = Append(chan[c], msg[t]) /\ pc[t] = "send" /\ c \in todo[t] /\ pc' = pc
      /\ todo'[t] = todo[t] \ {c} /\ \A u \in Casters \ {t} : todo'[u] = todo[u]
      /\ UNCHANGED <<arrived, version, hpc, out, seen>>
  BY DEF Send, Enqueue, TypeOK, fanout, handlers
<1>2. Newest(c) <= Newest(c)' /\ (t = Udp => Newest(c) = arrived - 1 /\ Newest(c)' = arrived)
  BY <1>0, <1>1, CasterFacts DEF Newest, Pending
<1>3. msg[t].kind = "packet" => t = Udp /\ msg[t].data = arrived
  BY <1>1 DEF MessageInv, Packet
<1>4. Held(msg[t])
  BY <1>1 DEF MessageInv, Packet, Held
<1>5. Last(c)' = Last(c) /\ Writing(c)' = Writing(c)
  BY <1>1 DEF Last, Writing
<1>6. Ordered(chan'[c], Last(c), Newest(c)')
  <2>1. msg[t].kind = "packet" => Newest(c) < msg[t].data /\ msg[t].data <= Newest(c)'
    BY <1>0, <1>2, <1>3
  <2>2. Last(c) <= Newest(c) /\ Ordered(chan[c], Last(c), Newest(c))
    BY DEF ChannelInv
  <2> QED
    BY <1>0, <1>1, <1>2, <2>1, <2>2, OrderedAppend
<1>7. \A i \in 1 .. Len(chan'[c]) : Held(chan'[c][i])
  <2>1. \A i \in 1 .. Len(chan[c]) : Held(chan[c][i])
    BY DEF ChannelInv
  <2>2. \A i \in 1 .. Len(chan'[c]) : 
            \/ chan'[c][i] = msg[t]
            \/ i \in 1 .. Len(chan[c]) /\ chan'[c][i] = chan[c][i]
    BY <1>0, <1>1, AppendFacts
  <2>3. TAKE i \in 1 .. Len(chan'[c])
  <2>4. CASE chan'[c][i] = msg[t]
    BY <1>4, <2>4 DEF Held
  <2>5. CASE i \in 1 .. Len(chan[c]) /\ chan'[c][i] = chan[c][i]
    BY <2>1, <2>5 DEF Held
  <2> QED
    BY <2>2, <2>4, <2>5
<1>8. ChannelInv(c)'
  <2>1. \A f : Held(f)' <=> Held(f)
    BY <1>1 DEF Held
  <2> QED
    BY <1>0, <1>1, <1>2, <1>5, <1>6, <1>7, <2>1 DEF ChannelInv
<1>9. FirstInv(c)'
  <2>1. chan[c] # <<>> => chan'[c] # <<>> /\ chan'[c][1] = chan[c][1]
    BY <1>0, <1>1, AppendFacts
  <2> QED
    BY <1>1, <2>1 DEF FirstInv
<1> QED
  BY <1>8, <1>9

(* The handler's own channel starts with the style map. *)
LEMMA FirstFrameKeepsChannel ==
    ASSUME TypeOK, MessageInv, version > 0, NEW c \in Conns, ChannelInv(c), FirstFrame(c)
    PROVE  ChannelInv(c)' /\ FirstInv(c)'
<1>0. version \in Nat /\ Newest(c) \in Nat /\ Last(c) \in Nat /\ Last(c) <= Newest(c)
  BY ChannelTypes DEF ChannelInv
<1>1. /\ chan'[c] = <<Styles(version)>> /\ hpc'[c] = "add" /\ hpc[c] = "styles"
      /\ UNCHANGED <<arrived, version, pc, todo, out, seen>>
  BY DEF FirstFrame, TypeOK, fanout, casters
<1>2. Newest(c)' = Newest(c) /\ Last(c)' = Last(c) /\ ~Writing(c)'
  BY <1>1 DEF Newest, Pending, Last, Writing
<1>3. Len(chan'[c]) = 1 /\ chan'[c][1] = Styles(version) /\ chan'[c] # <<>>
  BY <1>1
<1>4. Ordered(chan'[c], Last(c), Newest(c))
  BY <1>3 DEF Ordered, Styles
<1>5. ChannelInv(c)'
  BY <1>0, <1>1, <1>2, <1>3, <1>4 DEF ChannelInv, Held, Styles
<1>6. FirstInv(c)'
  BY <1>1, <1>3 DEF FirstInv, Styles
<1> QED
  BY <1>5, <1>6

(* The head of the channel becomes the frame being written. *)
LEMMA TakeKeepsChannel ==
    ASSUME TypeOK, MessageInv, NEW c \in Conns, ChannelInv(c), FirstInv(c), Take(c)
    PROVE  ChannelInv(c)' /\ FirstInv(c)'
<1>0. version \in Nat /\ Newest(c) \in Nat /\ Last(c) \in Nat /\ Last(c) <= Newest(c) /\ chan[c] \in Seq(Frames)
  BY ChannelTypes DEF ChannelInv
<1>1. /\ chan[c] # <<>> /\ out'[c] = Head(chan[c]) /\ chan'[c] = Tail(chan[c])
      /\ hpc[c] = "select" /\ hpc'[c] = "write" /\ UNCHANGED <<arrived, version, pc, todo, seen>>
  BY DEF Take, TypeOK, fanout, casters
<1>2. Newest(c)' = Newest(c) /\ Last(c) = seen[c].packet /\ Writing(c)' = (Head(chan[c]).kind = "packet")
  BY <1>1 DEF Newest, Pending, Last, Writing
<1>3. Last(c)' = IF Head(chan[c]).kind = "packet" THEN Head(chan[c]).data ELSE Last(c)
  BY <1>1, <1>2 DEF Last, Writing
<1>4. /\ Ordered(chan'[c], Last(c)', Newest(c))
      /\ Head(chan[c]).kind = "packet" => Last(c) < Head(chan[c]).data /\ Head(chan[c]).data <= Newest(c)
  BY <1>0, <1>1, <1>3, OrderedTail DEF ChannelInv
<1>5. /\ Head(chan[c]) = chan[c][1] /\ 1 \in 1 .. Len(chan[c])
      /\ \A i \in 1 .. Len(chan'[c]) : chan'[c][i] = chan[c][i + 1] /\ i + 1 \in 1 .. Len(chan[c])
  BY <1>0, <1>1
<1>6. ChannelInv(c)'
  <2>1. \A f : Held(f)' <=> Held(f)
    BY <1>1 DEF Held
  <2> QED
    BY <1>0, <1>1, <1>2, <1>3, <1>4, <1>5, <2>1 DEF ChannelInv
<1>7. FirstInv(c)'
  BY <1>1, <1>5 DEF FirstInv
<1> QED
  BY <1>6, <1>7

(* What is written is newer than all the browser has seen. *)
LEMMA WriteKeepsChannel ==
    ASSUME TypeOK, MessageInv, NEW c \in Conns, ChannelInv(c), FirstInv(c), Write(c)
    PROVE  ChannelInv(c)' /\ FirstInv(c)'
<1>0. version \in Nat /\ Newest(c) \in Nat /\ Last(c) \in Nat /\ out[c] \in Frames
      /\ seen[c] \in [packet : Nat, packets : Nat, styles : Nat]
  BY ChannelTypes DEF TypeOK
<1>1. /\ seen'[c] = Written(c, out[c]) /\ hpc[c] = "write" /\ hpc'[c] = "select"
      /\ UNCHANGED <<arrived, version, pc, todo, chan>>
  BY DEF Write, TypeOK, fanout, casters
<1>2. Bytes(out[c]) = out[c].data /\ out[c].kind \in {"packet", "styles", "status"} /\ out[c].data \in Nat
  BY <1>0, WrittenType, FrameData
<1>3. Newest(c)' = Newest(c) /\ Last(c)' = Last(c) /\ ~Writing(c)'
  BY <1>0, <1>1, <1>2 DEF Newest, Pending, Last, Writing, Written
<1>4. ChannelInv(c)'
  <2>1. \A f : Held(f)' <=> Held(f)
    BY <1>1 DEF Held
  <2> QED
    BY <1>1, <1>3, <2>1 DEF ChannelInv
<1>5. FirstInv(c)'
  <2>1. out[c].kind = "styles" => seen'[c].styles = out[c].data /\ out[c].data > 0
    BY <1>0, <1>1, <1>2 DEF ChannelInv, Held, Written
  <2>2. out[c].kind # "styles" => seen'[c].styles = seen[c].styles
    BY <1>0, <1>1, <1>2 DEF Written
  <2> QED
    BY <1>1, <1>2, <2>1, <2>2 DEF FirstInv
<1> QED
  BY <1>4, <1>5

(* A client that fails or leaves shows nothing more. *)
LEMMA LeaveKeepsChannel ==
    ASSUME TypeOK, MessageInv, NEW c \in Conns, ChannelInv(c), WriteFails(c) \/ Remove(c)
    PROVE  ChannelInv(c)' /\ FirstInv(c)'
<1>0. Newest(c) \in Nat /\ Last(c) \in Nat /\ seen[c].packet \in Nat /\ out[c].data \in Nat
      /\ Last(c) <= Newest(c) /\ chan[c] \in Seq(Frames)
  BY ChannelTypes, FrameData DEF ChannelInv
<1>1. /\ chan'[c] \in {chan[c], <<>>} /\ (hpc[c] # "write" => chan'[c] = <<>>)
      /\ hpc'[c] \in {"remove", "done"}
      /\ UNCHANGED <<arrived, version, pc, todo, seen>>
  BY DEF WriteFails, Remove, RemoveUnlocked, TypeOK, fanout, casters
<1>2. Newest(c)' = Newest(c) /\ Last(c)' = seen[c].packet /\ ~Writing(c)'
  BY <1>1 DEF Newest, Pending, Last, Writing
<1>3. seen[c].packet <= Last(c)
  BY <1>0 DEF ChannelInv, Last, Writing
<1>4. Ordered(chan'[c], seen[c].packet, Newest(c))
  <2>1. Ordered(<<>>, seen[c].packet, Newest(c))
    BY <1>0, OrderedNone
  <2>2. Ordered(chan[c], Last(c), Newest(c)) /\ \A i \in 1 .. Len(chan[c]) : chan[c][i].data \in Nat
    BY <1>0, FrameData DEF ChannelInv
  <2>3. Ordered(chan[c], seen[c].packet, Newest(c))
    BY <1>0, <1>3, <2>2 DEF Ordered
  <2> QED
    BY <1>1, <2>1, <2>3
<1>5. \A i \in 1 .. Len(chan'[c]) : Held(chan'[c][i])
  BY <1>1 DEF ChannelInv
<1>6. \A f : Held(f)' <=> Held(f)
  BY <1>1 DEF Held
<1> QED
  BY <1>6, <1>0, <1>1, <1>2, <1>3, <1>4, <1>5 DEF ChannelInv, FirstInv

(* One case per action: those that touch the channel of d, and the rest,   *)
(* after which d's newest packet is no older than before.                  *)
LEMMA StepKeepsChannels ==
    ASSUME IInv, TypeOK', MessageInv', [Next]_vars, NEW d \in Conns
    PROVE  ChannelInv(d)' /\ FirstInv(d)'
<1> USE DEF IInv
<1>0. version \in Nat /\ arrived \in Nat /\ ChannelInv(d) /\ FirstInv(d) /\ Newest(d) \in Nat /\ Newest(d) <= arrived
  BY ChannelTypes
<1>1. ASSUME version <= version', Newest(d) <= Newest(d)', UNCHANGED <<chan[d], out[d], seen[d]>>,
             hpc'[d] = "write" <=> hpc[d] = "write",
             hpc'[d] \in {"add", "select"} => hpc[d] \in {"add", "select"}
      PROVE  ChannelInv(d)' /\ FirstInv(d)'
  BY <1>0, <1>1, SameChannel
<1>2. ASSUME UNCHANGED <<chan, handlers, version>>, Newest(d) <= Newest(d)'
      PROVE  ChannelInv(d)' /\ FirstInv(d)'
  BY <1>0, <1>1, <1>2 DEF handlers
<1>3. ASSUME UNCHANGED <<fanout, casters>> PROVE Newest(d) <= Newest(d)' /\ version <= version'
  BY <1>0, <1>3 DEF fanout, casters, Newest, Pending
<1>4. ASSUME NEW t \in Casters, Lock(t) PROVE ChannelInv(d)' /\ FirstInv(d)'
  <2>1. Newest(d) <= Newest(d)'
    BY <1>0, <1>4 DEF Lock, fanout, TypeOK, Newest, Pending
  <2> QED
    BY <1>2, <1>4, <2>1 DEF Lock, fanout
<1>5. ASSUME NEW t \in Casters, NEW c \in Conns, Send(t, c) PROVE ChannelInv(d)' /\ FirstInv(d)'
  <2>1. CASE c = d /\ Enqueue(t, c)
    BY <1>0, <1>5, <2>1, SendKeepsChannel
  <2>2. CASE c # d \/ Drop(t, c)
    <3>1. UNCHANGED <<chan[d], handlers, version>>
      BY <1>5, <2>2 DEF Send, Enqueue, Drop, TypeOK, fanout
    <3>2. Newest(d) <= Newest(d)'
      BY <1>0, <1>5 DEF Send, fanout, TypeOK, Newest, Pending
    <3> QED
      BY <1>0, <1>1, <3>1, <3>2 DEF handlers
  <2> QED
    BY <1>5, <2>1, <2>2 DEF Send
<1>6. ASSUME NEW t \in Casters, Unlock(t) PROVE ChannelInv(d)' /\ FirstInv(d)'
  <2>1. Newest(d) <= Newest(d)'
    BY <1>0, <1>6 DEF Unlock, fanout, TypeOK, Newest, Pending
  <2> QED
    BY <1>2, <1>6, <2>1 DEF Unlock, fanout
<1>7. ASSUME NEW size \in Sizes, Read(size) PROVE ChannelInv(d)' /\ FirstInv(d)'
  <2>1. Newest(d) <= Newest(d)'
    BY <1>0, <1>7, CasterFacts DEF Read, TypeOK, Newest, Pending
  <2> QED
    BY <1>2, <1>7, <2>1 DEF Read
<1>8. CASE Relay
  <2>1. Newest(d) <= Newest(d)'
    BY <1>0, <1>8, CasterFacts DEF Relay, fanout, TypeOK, Newest, Pending
  <2> QED
    BY <1>2, <1>8, <2>1 DEF Relay, fanout
<1>9. CASE Tick
  <2>1. Newest(d) <= Newest(d)'
    BY <1>0, <1>9, CasterFacts DEF Tick, fanout, TypeOK, Newest, Pending
  <2> QED
    BY <1>2, <1>9, <2>1 DEF Tick, fanout
<1>10. ASSUME NEW p \in Putters, SetStyle(p) \/ Snapshot(p) \/ Answer(p)
       PROVE  ChannelInv(d)' /\ FirstInv(d)'
  <2>0. pc'[Udp] = pc[Udp] /\ UNCHANGED <<todo, arrived>>
    BY <1>10, CasterFacts DEF SetStyle, Snapshot, Answer, fanout, TypeOK
  <2>1. Newest(d) <= Newest(d)'
    BY <1>0, <2>0 DEF Newest, Pending
  <2>2. version <= version'
    BY <1>0, <1>10 DEF SetStyle, Snapshot, Answer, fanout
  <2> QED
    BY <1>1, <1>10, <2>1, <2>2 DEF SetStyle, Snapshot, Answer, handlers
<1>11. ASSUME NEW c \in Conns, Accept(c) \/ Done(c) \/ Add(c) \/ Peer(c)
       PROVE  ChannelInv(d)' /\ FirstInv(d)'
  <2>1. UNCHANGED <<fanout, casters, chan, out, seen>>
    BY <1>11 DEF Accept, Done, Add, Peer
  <2>2. /\ hpc'[d] = "write" <=> hpc[d] = "write"
        /\ hpc'[d] \in {"add", "select"} => hpc[d] \in {"add", "select"}
    BY <1>11 DEF Accept, Done, Add, Peer, TypeOK
  <2> QED
    BY <1>1, <1>3, <2>1, <2>2
<1>12. ASSUME NEW c \in Conns,
              FirstFrame(c) \/ Take(c) \/ Write(c) \/ WriteFails(c) \/ Remove(c)
       PROVE  ChannelInv(d)' /\ FirstInv(d)'
  <2>1. CASE c = d
    BY <1>0, <1>12, <2>1, FirstFrameKeepsChannel, TakeKeepsChannel, WriteKeepsChannel, LeaveKeepsChannel
  <2>2. CASE c # d
    <3>1. UNCHANGED <<fanout, casters>>
      BY <1>12 DEF FirstFrame, Take, Write, WriteFails, Remove, RemoveUnlocked
    <3>a. /\ chan \in [Conns -> Seq(Frames)] /\ DOMAIN hpc = Conns
          /\ DOMAIN out = Conns /\ DOMAIN seen = Conns
      BY <1>0 DEF TypeOK
    <3>2. UNCHANGED <<chan[d], hpc[d]>>
      <4>1. CASE FirstFrame(c)
        BY <2>2, <3>a, <4>1 DEF FirstFrame
      <4>2. CASE Take(c)
        BY <2>2, <3>a, <4>2 DEF Take
      <4>3. CASE Write(c)
        BY <2>2, <3>a, <4>3 DEF Write
      <4>4. CASE WriteFails(c)
        BY <2>2, <3>a, <4>4 DEF WriteFails
      <4>5. CASE Remove(c)
        BY <2>2, <3>a, <4>5 DEF Remove, RemoveUnlocked
      <4> QED BY <1>12, <4>1, <4>2, <4>3, <4>4, <4>5
    <3>3. UNCHANGED <<out[d], seen[d]>>
      <4>1. CASE FirstFrame(c)
        BY <2>2, <3>a, <4>1 DEF FirstFrame
      <4>2. CASE Take(c)
        BY <2>2, <3>a, <4>2 DEF Take
      <4>3. CASE Write(c)
        BY <2>2, <3>a, <4>3 DEF Write
      <4>4. CASE WriteFails(c)
        BY <2>2, <3>a, <4>4 DEF WriteFails
      <4>5. CASE Remove(c)
        BY <2>2, <3>a, <4>5 DEF Remove, RemoveUnlocked
      <4> QED BY <1>12, <4>1, <4>2, <4>3, <4>4, <4>5
    <3> QED
      BY <1>1, <1>3, <3>1, <3>2, <3>3
  <2> QED
    BY <2>1, <2>2
<1>13. CASE UNCHANGED vars
  BY <1>2, <1>3, <1>13 DEF vars, fanout
<1> QED
  BY <1>4, <1>5, <1>6, <1>7, <1>8, <1>9, <1>10, <1>11, <1>12, <1>13 DEF Next, Cast, Put, Handle

(* Every step keeps the invariant. *)
LEMMA StepKeepsIInv == IInv /\ [Next]_vars => IInv'
<1> SUFFICES ASSUME IInv, [Next]_vars PROVE IInv'
  OBVIOUS
<1>1. TypeOK' /\ LockInv' /\ NoMapRace' /\ version' > 0 /\ MessageInv'
  BY StepKeepsType, StepKeepsLocks, StepKeepsMessages DEF IInv
<1> QED
  BY <1>1, StepKeepsChannels DEF IInv

(* It holds when nothing has arrived and nobody is connected. *)
LEMMA InitIInv == Init => IInv
<1> SUFFICES ASSUME Init PROVE IInv
  OBVIOUS
<1>1. TypeOK
  BY FrameTypes, CasterFacts DEF Init, TypeOK
<1>2. LockInv /\ NoMapRace /\ MessageInv /\ version > 0
  BY CasterFacts DEF Init, LockInv, NoMapRace, MessageInv
<1>3. ASSUME NEW c \in Conns PROVE ChannelInv(c) /\ FirstInv(c)
  <2>1. Newest(c) = 0 /\ Last(c) = 0 /\ ~Writing(c) /\ hpc[c] = "off" /\ chan[c] = <<>>
    BY CasterFacts DEF Init, Newest, Pending, Last, Writing
  <2> QED
    BY <2>1, OrderedNone DEF ChannelInv, FirstInv
<1> QED
  BY <1>1, <1>2, <1>3 DEF IInv

(* So it holds throughout. *)
LEMMA SpecIInv == Spec => []IInv
BY InitIInv, StepKeepsIInv, PTL DEF Spec

(* Every variable of the hub keeps its type; packets are numbers, never a  *)
(* reference to the reader's buffer (hub.go:119).                          *)
THEOREM HubTypeCorrect == Spec => []TypeOK
BY SpecIInv, PTL DEF IInv

(* However clients come, sleep and go, a broadcast only visits registered  *)
(* clients: the map never changes under the range (hub.go:92-101).         *)
THEOREM NoConcurrentMapWrite == Spec => []NoMapRace
BY SpecIInv, PTL DEF IInv

-----------------------------------------------------------------------------
(* A write shows the browser a map the store has held, or a packet newer   *)
(* than all it has seen and no newer than the last to arrive.              *)
LEMMA WriteIsFanout ==
    ASSUME IInv, NEW c \in Conns, Write(c)
    PROVE  [Browsers!Next]_(Browsers!vars)
<1>0. /\ version \in Nat /\ arrived \in Nat /\ out[c] \in Frames
      /\ seen \in [Conns -> [packet : Nat, packets : Nat, styles : Nat]]
      /\ Newest(c) \in Nat /\ Newest(c) <= arrived /\ ChannelInv(c) /\ FirstInv(c)
  BY ChannelTypes DEF IInv, TypeOK
<1>1. /\ seen' = [seen EXCEPT ![c] = Written(c, out[c])] /\ hpc[c] = "write"
      /\ UNCHANGED <<arrived, version>>
  BY DEF Write, fanout
<1>2. Bytes(out[c]) = out[c].data /\ out[c].kind \in {"packet", "styles", "status"} /\ out[c].data \in Nat
  BY <1>0, WrittenType, FrameData DEF IInv
<1>3. CASE out[c].kind = "packet"
  <2>1. Last(c) = out[c].data /\ seen[c].packet < out[c].data /\ Last(c) <= Newest(c)
    BY <1>0, <1>1, <1>3 DEF ChannelInv, Last, Writing
  <2>2. out[c].data \in (seen[c].packet + 1) .. arrived
    BY <1>0, <1>2, <2>1
  <2>3. seen[c].styles # 0
    BY <1>0, <1>1, <1>3 DEF FirstInv
  <2>4. seen' = [seen EXCEPT ![c].packet = out[c].data, ![c].packets = @ + 1]
    BY <1>0, <1>1, <1>2, <1>3 DEF Written
  <2>5. Browsers!ShowPacket(c)
    BY <1>1, <2>2, <2>3, <2>4 DEF Browsers!ShowPacket
  <2> QED
    BY <2>5 DEF Browsers!Next
<1>4. CASE out[c].kind = "styles"
  <2>1. out[c].data \in 1 .. version
    BY <1>0, <1>1, <1>4 DEF ChannelInv, Held
  <2>2. seen' = [seen EXCEPT ![c].styles = out[c].data]
    BY <1>0, <1>1, <1>2, <1>4 DEF Written
  <2>3. Browsers!ShowStyles(c)
    BY <1>1, <2>1, <2>2 DEF Browsers!ShowStyles
  <2> QED
    BY <2>3 DEF Browsers!Next
<1>5. CASE out[c].kind = "status"
  BY <1>0, <1>1, <1>5 DEF Written, Browsers!vars
<1> QED
  BY <1>2, <1>3, <1>4, <1>5

(* What a browser is sent by a step is what Fanout lets it see, and the *)
(* other steps show it nothing. *)
LEMMA StepIsFanout == IInv /\ [Next]_vars => [Browsers!Next]_(Browsers!vars)
<1> SUFFICES ASSUME IInv, [Next]_vars PROVE [Browsers!Next]_(Browsers!vars)
  OBVIOUS
<1>1. ASSUME NEW size \in Sizes, Read(size) PROVE Browsers!Arrive
  BY <1>1 DEF Read, handlers, Browsers!Arrive
<1>2. ASSUME NEW p \in Putters, SetStyle(p) PROVE Browsers!Change
  BY <1>2 DEF SetStyle, handlers, Browsers!Change
<1>3. ASSUME NEW c \in Conns, Write(c) PROVE [Browsers!Next]_(Browsers!vars)
  BY <1>3, WriteIsFanout
<1>4. ASSUME NEW t \in Casters, Cast(t) PROVE UNCHANGED Browsers!vars
  BY <1>4 DEF Cast, Lock, Send, Unlock, fanout, handlers, Browsers!vars
<1>5. ASSUME Relay \/ Tick PROVE UNCHANGED Browsers!vars
  BY <1>5 DEF Relay, Tick, fanout, handlers, Browsers!vars
<1>6. ASSUME NEW p \in Putters, Put(p) PROVE UNCHANGED Browsers!vars
  BY <1>6 DEF Put, Snapshot, Answer, fanout, handlers, Browsers!vars
<1>7. ASSUME NEW c \in Conns,
             Accept(c) \/ FirstFrame(c) \/ Take(c) \/ Done(c) \/ WriteFails(c) \/ Add(c) \/ Remove(c) \/ Peer(c)
      PROVE  UNCHANGED Browsers!vars
  BY <1>7 DEF Accept, FirstFrame, Take, Done, WriteFails, Add, Remove, RemoveUnlocked, Peer,
              fanout, Browsers!vars
<1>8. CASE UNCHANGED vars
  BY <1>8 DEF vars, fanout, handlers, Browsers!vars
<1> QED
  BY <1>1, <1>2, <1>3, <1>4, <1>5, <1>6, <1>7, <1>8 DEF Next, Handle, Browsers!Next

(* The hub implements Fanout: each browser gets the style map first, then  *)
(* packets in order, whole and at most once, whatever is dropped.          *)
THEOREM HubRefinesFanout == Spec => HubIsFanout
<1>1. Init => Browsers!Init
  BY DEF Init, Browsers!Init
<1> QED
  BY <1>1, SpecIInv, StepIsFanout, PTL DEF Spec, Browsers!Spec, HubIsFanout

(* What Fanout says in steps, as a state: a browser was shown no more      *)
(* packets than came up to the last it saw, which did come, none before    *)
(* its first map, and no map the server has yet to hold.                   *)
OnceAndAfterMaps ==
    \A c \in Conns :
        /\ seen[c].packets <= seen[c].packet /\ seen[c].packet <= arrived
        /\ seen[c].styles <= version
        /\ seen[c].packets > 0 => seen[c].styles > 0

LEMMA FanoutKeepsOrder ==
    ASSUME IInv, OnceAndAfterMaps, [Browsers!Next]_(Browsers!vars)
    PROVE  OnceAndAfterMaps'
<1>0. /\ arrived \in Nat /\ version \in Nat /\ version > 0
      /\ seen \in [Conns -> [packet : Nat, packets : Nat, styles : Nat]]
  BY DEF IInv, TypeOK
<1>1. CASE Browsers!Arrive \/ Browsers!Change \/ UNCHANGED Browsers!vars
  BY <1>0, <1>1 DEF OnceAndAfterMaps, Browsers!Arrive, Browsers!Change, Browsers!vars
<1>2. ASSUME NEW c \in Conns, Browsers!ShowStyles(c) PROVE OnceAndAfterMaps'
  <2>1. PICK v \in 1 .. version : seen' = [seen EXCEPT ![c].styles = v]
    BY <1>2 DEF Browsers!ShowStyles
  <2>2. UNCHANGED <<arrived, version>>
    BY <1>2 DEF Browsers!ShowStyles
  <2>3. /\ seen'[c].packet = seen[c].packet /\ seen'[c].packets = seen[c].packets /\ seen'[c].styles = v
        /\ \A d \in Conns \ {c} : seen'[d] = seen[d]
    BY <1>0, <2>1
  <2> QED
    BY <1>0, <2>1, <2>2, <2>3 DEF OnceAndAfterMaps
<1>3. ASSUME NEW c \in Conns, Browsers!ShowPacket(c) PROVE OnceAndAfterMaps'
  <2>1. PICK n \in (seen[c].packet + 1) .. arrived :
            seen' = [seen EXCEPT ![c].packet = n, ![c].packets = @ + 1]
    BY <1>3 DEF Browsers!ShowPacket
  <2>2. seen[c].styles # 0 /\ UNCHANGED <<arrived, version>>
    BY <1>3 DEF Browsers!ShowPacket
  <2>3. /\ seen'[c].packet = n /\ seen'[c].packets = seen[c].packets + 1 /\ seen'[c].styles = seen[c].styles
        /\ \A d \in Conns \ {c} : seen'[d] = seen[d]
    BY <1>0, <2>1
  <2>4. seen[c].packet \in Nat /\ seen[c].packets \in Nat /\ seen[c].styles \in Nat
    BY <1>0
  <2> QED
    BY <1>0, <2>1, <2>2, <2>3, <2>4 DEF OnceAndAfterMaps
<1> QED
  BY <1>1, <1>2, <1>3 DEF Browsers!Next

(* So it holds of the hub: however frames are dropped, no packet is shown  *)
(* to a browser twice, and none before its first map (hub.go:92-101,       *)
(* 189-209).                                                               *)
THEOREM NothingShownTwice == Spec => []OnceAndAfterMaps
<1>1. Init => OnceAndAfterMaps
  BY DEF Init, OnceAndAfterMaps
<1>2. IInv /\ OnceAndAfterMaps /\ [Next]_vars => OnceAndAfterMaps'
  BY StepIsFanout, FanoutKeepsOrder
<1> QED
  BY <1>1, <1>2, SpecIInv, PTL DEF Spec

-----------------------------------------------------------------------------
Reached(p, c) == queued[c] >= mine[p] \/ missed[c] # {}

(* The connections that must have been reached by now. *)
Due(p, c) ==
    \/ hpc[c] = "add"
    \/ c \in clients /\ pc[p] = "answer"
    \/ c \in clients /\ pc[p] = "send" /\ c \notin todo[p]

(* A client the broadcast has visited has the new map, and so has one that *)
(* took its first frame after the edit, unless it is on record as missed.  *)
QueueInv ==
    /\ \A c \in Conns : queued[c] <= version
    /\ \A p \in Putters :
          /\ mine[p] <= version
          /\ pc[p] \in {"cast", "send"} => msg[p].kind = "styles" /\ msg[p].data >= mine[p]
    /\ \A p \in Putters, c \in Conns : Due(p, c) => Reached(p, c)

(* No PUT has begun. *)
LEMMA InitQueueInv == Init => QueueInv
BY CasterFacts DEF Init, QueueInv, Due, Reached

(* Nothing relevant to the PUTs changes. *)
LEMMA QueueUnchanged ==
    ASSUME QueueInv, UNCHANGED <<version, clients, queued, missed, mine, todo>>,
           \A p \in Putters : pc'[p] = pc[p] /\ msg'[p] = msg[p],
           \A c \in Conns : hpc'[c] = "add" => hpc[c] = "add"
    PROVE  QueueInv'
BY DEF QueueInv, Due, Reached

(* A broadcast puts its map in the channel of every client it visits, or *)
(* records why it did not. *)
LEMMA StepKeepsQueueInv == IInv /\ QueueInv /\ [Next]_vars => QueueInv'
<1> SUFFICES ASSUME IInv, QueueInv, [Next]_vars PROVE QueueInv'
  OBVIOUS
<1>0. /\ version \in Nat /\ queued \in [Conns -> Nat] /\ mine \in [Putters -> Nat]
      /\ pc \in [Casters -> {"idle", "packet", "snapshot", "cast", "send", "answer"}]
      /\ msg \in [Casters -> Frames] /\ todo \in [Casters -> SUBSET Conns]
      /\ hpc \in [Conns -> {"off", "styles", "add", "select", "write", "remove", "done"}]
      /\ missed \in [Conns -> SUBSET {"full", "connecting"}] /\ clients \subseteq Conns
  BY DEF IInv, TypeOK
<1>1. ASSUME NEW t \in Casters, Lock(t) PROVE QueueInv'
  BY <1>0, <1>1 DEF QueueInv, Due, Reached, Lock, fanout, registry, handlers, history
<1>2. ASSUME NEW t \in Casters, NEW c \in Conns, Send(t, c) PROVE QueueInv'
  <2>0. /\ pc[t] = "send" /\ c \in todo[t] /\ todo' = [todo EXCEPT ![t] = @ \ {c}]
        /\ msg[t] \in Frames /\ msg[t].data \in Nat
        /\ UNCHANGED <<version, clients, hpc, pc, msg, mine>>
    BY <1>0, <1>2, FrameData DEF Send, fanout, registry, handlers
  <2>1. /\ queued' = [queued EXCEPT ![c] = queued'[c]] /\ missed' = [missed EXCEPT ![c] = missed'[c]]
        /\ queued'[c] >= queued[c] /\ queued'[c] <= version /\ queued'[c] \in Nat
        /\ missed[c] # {} => missed'[c] # {}
        /\ msg[t].kind = "styles" => queued'[c] >= msg[t].data \/ missed'[c] # {}
    <3>1. CASE Enqueue(t, c)
      <4>1. msg[t].kind = "styles" => msg[t].data <= version
        BY <1>0, <2>0 DEF IInv, MessageInv, Held, Packet
      <4> QED
        BY <1>0, <2>0, <3>1, <4>1 DEF Enqueue, QueueInv
    <3>2. CASE Drop(t, c)
      <4>1. missed'[c] = IF msg[t].kind = "styles" THEN missed[c] \cup {"full"} ELSE missed[c]
        BY <1>0, <3>2 DEF Drop
      <4>2. missed' = [missed EXCEPT ![c] = missed'[c]]
        BY <1>0, <3>2 DEF Drop
      <4>3. queued' = queued /\ queued = [queued EXCEPT ![c] = queued[c]]
        BY <1>0, <3>2 DEF Drop
      <4>4. queued'[c] >= queued[c] /\ queued'[c] <= version /\ queued'[c] \in Nat
        BY <1>0, <4>3 DEF QueueInv
      <4> QED
        BY <4>1, <4>2, <4>3, <4>4
    <3> QED
      BY <1>2, <3>1, <3>2 DEF Send
  <2>2. \A d \in Conns : queued'[d] <= version
    BY <1>0, <2>1 DEF QueueInv
  <2>3. ASSUME NEW p \in Putters, NEW d \in Conns, Due(p, d)' PROVE Reached(p, d)'
    <3>1. CASE Due(p, d)
      <4>1. Reached(p, d) /\ mine[p] \in Nat /\ queued[d] \in Nat
        BY <1>0, <3>1 DEF QueueInv
      <4> QED
        BY <1>0, <2>0, <2>1, <4>1 DEF Reached
    <3>2. CASE ~Due(p, d)
      <4>1. p = t /\ d = c
        BY <1>0, <2>0, <2>3, <3>2, CasterFacts DEF Due
      <4>2. msg[p].kind = "styles" /\ msg[p].data >= mine[p] /\ mine[p] \in Nat
        BY <1>0, <2>0, <4>1 DEF QueueInv
      <4> QED
        BY <2>0, <2>1, <4>1, <4>2 DEF Reached
    <3> QED
      BY <3>1, <3>2
  <2> QED
    BY <2>0, <2>2, <2>3 DEF QueueInv
<1>3. ASSUME NEW t \in Casters, Unlock(t) PROVE QueueInv'
  BY <1>0, <1>3 DEF QueueInv, Due, Reached, Unlock, fanout, registry, handlers, history
<1>4. ASSUME NEW p \in Putters, SetStyle(p) PROVE QueueInv'
  <2>0. /\ version' = version + 1 /\ mine' = [mine EXCEPT ![p] = version + 1]
        /\ pc[p] = "idle" /\ pc' = [pc EXCEPT ![p] = "snapshot"]
        /\ missed' = [c \in Conns |-> IF hpc[c] = "add" THEN missed[c] \cup {"connecting"} ELSE missed[c]]
        /\ UNCHANGED <<clients, queued, hpc, msg, todo>>
    BY <1>4 DEF SetStyle, registry, handlers
  <2>1. ASSUME NEW q \in Putters, NEW d \in Conns, Due(q, d)' PROVE Reached(q, d)'
    <3>1. CASE hpc[d] = "add"
      BY <2>0, <3>1 DEF Reached
    <3>2. CASE hpc[d] # "add"
      <4>1. q # p /\ Due(q, d)
        BY <1>0, <2>0, <2>1, <3>2, CasterFacts DEF Due
      <4>2. Reached(q, d)
        BY <4>1 DEF QueueInv
      <4> QED
        BY <1>0, <2>0, <3>2, <4>1, <4>2 DEF Reached
    <3> QED
      BY <3>1, <3>2
  <2>2. /\ \A d \in Conns : queued'[d] <= version'
        /\ \A q \in Putters : mine'[q] <= version'
    BY <1>0, <2>0 DEF QueueInv
  <2>3. \A q \in Putters : pc'[q] \in {"cast", "send"} => msg'[q].kind = "styles" /\ msg'[q].data >= mine'[q]
    BY <1>0, <2>0, CasterFacts DEF QueueInv
  <2> QED
    BY <2>1, <2>2, <2>3 DEF QueueInv
<1>5. ASSUME NEW p \in Putters, Snapshot(p) PROVE QueueInv'
  BY <1>0, <1>5, CasterFacts DEF QueueInv, Due, Reached, Snapshot, Styles, fanout, registry, handlers, history
<1>6. ASSUME NEW p \in Putters, Answer(p) PROVE QueueInv'
  BY <1>0, <1>6, CasterFacts DEF QueueInv, Due, Reached, Answer, fanout, registry, handlers, history
<1>7. ASSUME NEW c \in Conns, FirstFrame(c) PROVE QueueInv'
  BY <1>0, <1>7 DEF QueueInv, Due, Reached, FirstFrame, fanout, registry, casters
<1>8. ASSUME NEW c \in Conns, Add(c) PROVE QueueInv'
  <2>1. \A p \in Putters : pc[p] # "send"
    BY <1>8, CasterFacts DEF Add, Readers
  <2> QED
    BY <1>0, <1>8, <2>1 DEF QueueInv, Due, Reached, Add, fanout, casters, history
<1>9. ASSUME NEW c \in Conns, Remove(c) PROVE QueueInv'
  BY <1>0, <1>9 DEF QueueInv, Due, Reached, Remove, RemoveUnlocked, fanout, casters, history
<1>10. ASSUME NEW size \in Sizes, Read(size) PROVE QueueInv'
  BY <1>0, <1>10, QueueUnchanged, CasterFacts DEF Read, registry, handlers, history
<1>11. ASSUME Relay \/ Tick PROVE QueueInv'
  BY <1>0, <1>11, QueueUnchanged, CasterFacts DEF Relay, Tick, fanout, registry, handlers, history
<1>12. ASSUME NEW c \in Conns,
              Accept(c) \/ Take(c) \/ Done(c) \/ Write(c) \/ WriteFails(c) \/ Peer(c)
       PROVE  QueueInv'
  <2>1. UNCHANGED <<version, clients, queued, missed, mine, todo, pc, msg>>
    BY <1>12 DEF Accept, Take, Done, Write, WriteFails, Peer, fanout, registry, casters, history
  <2>2. \A d \in Conns : hpc'[d] = "add" => hpc[d] = "add"
    BY <1>0, <1>12 DEF Accept, Take, Done, Write, WriteFails, Peer
  <2> QED
    BY <2>1, <2>2, QueueUnchanged
<1>13. CASE UNCHANGED vars
  BY <1>13, QueueUnchanged DEF vars, fanout, registry, handlers, casters, history
<1> QED
  BY <1>1, <1>2, <1>3, <1>4, <1>5, <1>6, <1>7, <1>8, <1>9, <1>10, <1>11, <1>12, <1>13
  DEF Next, Cast, Put, Handle

(* An answered change is in the channel or the browser of every registered *)
(* client, unless its channel was full or it was just connecting           *)
(* (hub.go:92-101, 191-193, 229-243).                                      *)
THEOREM AnsweredChangeIsQueued == Spec => []AnsweredMeansQueued
<1>1. IInv /\ QueueInv => AnsweredMeansQueued
  BY DEF IInv, TypeOK, QueueInv, Due, Reached, AnsweredMeansQueued
<1> QED
  BY <1>1, InitQueueInv, StepKeepsQueueInv, SpecIInv, PTL DEF Spec

-----------------------------------------------------------------------------
(* Maps may reach a browser out of order only when two PUTs overlap.  A    *)
(* PUT is under way from its edit to the end of its broadcast.             *)
UnderWay(p) == pc[p] \in {"snapshot", "cast", "send"}
OnePut == \A p, q \in Putters : UnderWay(p) /\ UnderWay(q) => p = q

(* The last map that is on its way out of the channel of c. *)
WritingMap(c) == hpc[c] = "write" /\ out[c].kind = "styles"
LastMap(c) == IF WritingMap(c) THEN out[c].data ELSE seen[c].styles

(* No map of s is older than lo or than a map before it. *)
MapsOrdered(s, lo) ==
    /\ \A i \in 1 .. Len(s) : s[i].kind = "styles" => lo <= s[i].data
    /\ \A i, j \in 1 .. Len(s) :
          i < j /\ s[i].kind = "styles" /\ s[j].kind = "styles" => s[i].data <= s[j].data

(* A map that is broadcast is the one in the store. *)
CastsAreNew ==
    \A t \in Casters :
        pc[t] \in {"cast", "send"} /\ msg[t].kind = "styles" => t \in Putters /\ msg[t].data = version

MapsInv(c) ==
    /\ seen[c].styles <= LastMap(c) /\ LastMap(c) <= version
    /\ MapsOrdered(chan[c], LastMap(c))

(* A map as new as any other fits at the end, other frames fit anywhere. *)
LEMMA MapsOrderedAppend ==
    ASSUME NEW s \in Seq(Frames), NEW f \in Frames, NEW lo \in Nat, NEW hi \in Nat, lo <= hi,
           MapsOrdered(s, lo), \A i \in 1 .. Len(s) : s[i].kind = "styles" => s[i].data <= hi,
           f.kind = "styles" => f.data = hi
    PROVE  MapsOrdered(Append(s, f), lo)
<1> DEFINE r == Append(s, f)
<1>1. /\ Len(r) = Len(s) + 1 /\ r[Len(s) + 1] = f /\ \A i \in 1 .. Len(s) : r[i] = s[i]
      /\ \A i \in 1 .. Len(r) : i = Len(s) + 1 \/ i \in 1 .. Len(s)
  BY AppendFacts
<1>2. ASSUME NEW i \in 1 .. Len(r), r[i].kind = "styles" PROVE lo <= r[i].data
  BY <1>1, <1>2 DEF MapsOrdered
<1>3. ASSUME NEW i \in 1 .. Len(r), NEW j \in 1 .. Len(r), i < j,
             r[i].kind = "styles", r[j].kind = "styles"
      PROVE  r[i].data <= r[j].data
  <2>1. i \in 1 .. Len(s) /\ r[i] = s[i]
    BY <1>1, <1>3
  <2>2. CASE j = Len(s) + 1
    BY <1>1, <1>3, <2>1, <2>2
  <2>3. CASE j \in 1 .. Len(s)
    BY <1>1, <1>3, <2>1, <2>3 DEF MapsOrdered
  <2> QED
    BY <1>1, <2>2, <2>3
<1> QED
  BY <1>2, <1>3 DEF MapsOrdered

(* What follows the head is no older than the head. *)
LEMMA MapsOrderedTail ==
    ASSUME NEW s \in Seq(Frames), NEW lo, s # <<>>, MapsOrdered(s, lo)
    PROVE  /\ Head(s).kind = "styles" => lo <= Head(s).data
           /\ MapsOrdered(Tail(s), IF Head(s).kind = "styles" THEN Head(s).data ELSE lo)
<1>1. Head(s) = s[1] /\ 1 \in 1 .. Len(s)
  OBVIOUS
<1>2. Len(Tail(s)) = Len(s) - 1 /\ \A i \in 1 .. Len(Tail(s)) : Tail(s)[i] = s[i + 1] /\ i + 1 \in 1 .. Len(s)
  OBVIOUS
<1> QED
  BY <1>1, <1>2 DEF MapsOrdered

(* The versions that are compared are numbers. *)
LEMMA MapTypes ==
    ASSUME IInv, NEW c \in Conns
    PROVE  /\ version \in Nat /\ seen[c].styles \in Nat /\ LastMap(c) \in Nat
           /\ chan[c] \in Seq(Frames) /\ out[c] \in Frames /\ out[c].data \in Nat
           /\ \A i \in 1 .. Len(chan[c]) : chan[c][i].kind = "styles" => chan[c][i].data <= version
           /\ WritingMap(c) => out[c].data <= version
<1>1. /\ out[c] \in Frames /\ seen[c] \in [packet : Nat, packets : Nat, styles : Nat] /\ version \in Nat
      /\ chan[c] \in Seq(Frames) /\ ChannelInv(c)
  BY DEF IInv, TypeOK
<1>2. out[c].data \in Nat /\ seen[c].styles \in Nat
  BY <1>1, FrameData
<1>3. \A i \in 1 .. Len(chan[c]) : chan[c][i].kind = "styles" => chan[c][i].data <= version
  BY <1>1 DEF ChannelInv, Held
<1>4. WritingMap(c) => out[c].data <= version
  BY <1>1 DEF ChannelInv, Held, WritingMap
<1> QED
  BY <1>1, <1>2, <1>3, <1>4 DEF LastMap

(* Only a snapshot makes a map to broadcast, and while one PUT is under    *)
(* way no other edits the store.                                           *)
LEMMA StepKeepsCasts ==
    ASSUME IInv, OnePut', CastsAreNew, [Next]_vars
    PROVE  CastsAreNew'
<1>0. /\ version \in Nat /\ msg \in [Casters -> Frames]
      /\ pc \in [Casters -> {"idle", "packet", "snapshot", "cast", "send", "answer"}]
  BY DEF IInv, TypeOK
<1>1. ASSUME NEW t \in Casters, Lock(t) PROVE CastsAreNew'
  BY <1>0, <1>1 DEF CastsAreNew, Lock, fanout
<1>2. ASSUME NEW t \in Casters, NEW c \in Conns, Send(t, c) PROVE CastsAreNew'
  BY <1>0, <1>2 DEF CastsAreNew, Send, fanout
<1>3. ASSUME NEW t \in Casters, Unlock(t) PROVE CastsAreNew'
  BY <1>0, <1>3 DEF CastsAreNew, Unlock, fanout
<1>4. ASSUME NEW size \in Sizes, Read(size) PROVE CastsAreNew'
  BY <1>0, <1>4, CasterFacts DEF CastsAreNew, Read
<1>5. CASE Relay
  BY <1>0, <1>5, CasterFacts DEF CastsAreNew, Relay, Packet, fanout
<1>6. CASE Tick
  BY <1>0, <1>6, CasterFacts DEF CastsAreNew, Tick, StatusFrame, fanout
<1>7. ASSUME NEW p \in Putters, SetStyle(p) PROVE CastsAreNew'
  <2>1. pc' = [pc EXCEPT ![p] = "snapshot"] /\ msg' = msg
    BY <1>7 DEF SetStyle
  <2>2. ASSUME NEW t \in Casters, pc'[t] \in {"cast", "send"}, msg'[t].kind = "styles" PROVE FALSE
    <3>1. t # p /\ pc[t] \in {"cast", "send"} /\ t \in Putters
      BY <1>0, <2>1, <2>2, CasterFacts DEF CastsAreNew
    <3>2. UnderWay(p)' /\ UnderWay(t)'
      BY <1>0, <2>1, <2>2, CasterFacts DEF UnderWay
    <3> QED
      BY <3>1, <3>2 DEF OnePut
  <2> QED
    BY <2>2 DEF CastsAreNew
<1>8. ASSUME NEW p \in Putters, Snapshot(p) PROVE CastsAreNew'
  BY <1>0, <1>8, CasterFacts DEF CastsAreNew, Snapshot, Styles, fanout
<1>9. ASSUME NEW p \in Putters, Answer(p) PROVE CastsAreNew'
  BY <1>0, <1>9, CasterFacts DEF CastsAreNew, Answer, fanout
<1>10. ASSUME UNCHANGED <<version, casters>> PROVE CastsAreNew'
  BY <1>10 DEF CastsAreNew, casters
<1>11. ASSUME NEW c \in Conns,
              Accept(c) \/ FirstFrame(c) \/ Take(c) \/ Done(c) \/ Write(c) \/ WriteFails(c)
              \/ Add(c) \/ Remove(c) \/ Peer(c)
       PROVE  UNCHANGED <<version, casters>>
  BY <1>11 DEF Accept, FirstFrame, Take, Done, Write, WriteFails, Add, Remove, RemoveUnlocked, Peer, fanout
<1>12. CASE UNCHANGED vars
  BY <1>10, <1>12 DEF vars, fanout
<1> QED
  BY <1>1, <1>2, <1>3, <1>4, <1>5, <1>6, <1>7, <1>8, <1>9, <1>10, <1>11, <1>12
  DEF Next, Cast, Put, Handle

(* A connection whose channel nobody touches stays in order. *)
LEMMA SameMaps ==
    ASSUME IInv, version' \in Nat, version <= version', NEW c \in Conns, MapsInv(c),
           UNCHANGED <<chan[c], out[c], seen[c]>>, hpc'[c] = "write" <=> hpc[c] = "write"
    PROVE  MapsInv(c)'
<1>1. LastMap(c)' = LastMap(c)
  BY DEF LastMap, WritingMap
<1>2. version \in Nat /\ LastMap(c) \in Nat
  BY MapTypes
<1> QED
  BY <1>1, <1>2 DEF MapsInv

(* The actions that touch the channel of c: what is appended is as new as  *)
(* the store, and what is taken, written or lost keeps the order.          *)
LEMMA ChannelStepKeepsMaps ==
    ASSUME IInv, CastsAreNew, NEW c \in Conns, MapsInv(c),
           \/ \E t \in Casters : Send(t, c)
           \/ FirstFrame(c) \/ Take(c) \/ Write(c) \/ WriteFails(c) \/ Remove(c)
    PROVE  MapsInv(c)'
<1>0. /\ version \in Nat /\ seen[c].styles \in Nat /\ LastMap(c) \in Nat
      /\ chan[c] \in Seq(Frames) /\ out[c] \in Frames /\ out[c].data \in Nat
      /\ \A i \in 1 .. Len(chan[c]) : chan[c][i].kind = "styles" => chan[c][i].data <= version
      /\ chan \in [Conns -> Seq(Frames)] /\ DOMAIN hpc = Conns /\ DOMAIN out = Conns
      /\ seen \in [Conns -> [packet : Nat, packets : Nat, styles : Nat]]
  BY MapTypes DEF IInv, TypeOK
<1>1. ASSUME NEW t \in Casters, Send(t, c) PROVE MapsInv(c)'
  <2>1. UNCHANGED <<version, hpc, out, seen>> /\ pc[t] = "send"
    BY <1>1 DEF Send, fanout, handlers
  <2>2. LastMap(c)' = LastMap(c)
    BY <2>1 DEF LastMap, WritingMap
  <2>3. CASE Enqueue(t, c)
    <3>1. msg[t] \in Frames /\ chan'[c] = Append(chan[c], msg[t])
      BY <1>0, <2>3 DEF Enqueue, IInv, TypeOK
    <3>2. msg[t].kind = "styles" => msg[t].data = version
      BY <2>1 DEF CastsAreNew
    <3>3. MapsOrdered(chan'[c], LastMap(c))
      BY <1>0, <3>1, <3>2, MapsOrderedAppend DEF MapsInv
    <3> QED
      BY <2>1, <2>2, <3>3 DEF MapsInv
  <2>4. CASE Drop(t, c)
    BY <2>1, <2>2, <2>4 DEF Drop, MapsInv
  <2> QED
    BY <1>1, <2>3, <2>4 DEF Send
<1>2. CASE FirstFrame(c)
  <2>1. /\ chan'[c] = <<Styles(version)>> /\ hpc'[c] = "add" /\ hpc[c] = "styles"
        /\ UNCHANGED <<version, out, seen>>
    BY <1>0, <1>2 DEF FirstFrame, fanout
  <2>2. LastMap(c) = seen[c].styles /\ LastMap(c)' = seen[c].styles
    BY <2>1 DEF LastMap, WritingMap
  <2>3. MapsOrdered(chan'[c], seen[c].styles)
    <3>1. Len(chan'[c]) = 1 /\ chan'[c][1].data = version
      BY <2>1 DEF Styles
    <3>2. seen[c].styles <= version
      BY <2>2 DEF MapsInv
    <3> QED
      BY <1>0, <3>1, <3>2 DEF MapsOrdered
  <2> QED
    BY <1>0, <2>1, <2>2, <2>3 DEF MapsInv
<1>3. CASE Take(c)
  <2>1. /\ chan[c] # <<>> /\ out'[c] = Head(chan[c]) /\ chan'[c] = Tail(chan[c])
        /\ hpc[c] = "select" /\ hpc'[c] = "write" /\ UNCHANGED <<version, seen>>
    BY <1>0, <1>3 DEF Take, fanout
  <2>2. /\ LastMap(c) = seen[c].styles
        /\ LastMap(c)' = IF Head(chan[c]).kind = "styles" THEN Head(chan[c]).data ELSE LastMap(c)
    BY <2>1 DEF LastMap, WritingMap
  <2>3. /\ Head(chan[c]).kind = "styles" => LastMap(c) <= Head(chan[c]).data
        /\ MapsOrdered(chan'[c], LastMap(c)')
    BY <1>0, <2>1, <2>2, MapsOrderedTail DEF MapsInv
  <2>4. Head(chan[c]).kind = "styles" => Head(chan[c]).data <= version
    <3>1. Head(chan[c]) = chan[c][1] /\ 1 \in 1 .. Len(chan[c])
      BY <1>0, <2>1
    <3> QED
      BY <1>0, <3>1
  <2> QED
    BY <1>0, <2>1, <2>2, <2>3, <2>4 DEF MapsInv
<1>4. CASE Write(c)
  <2>1. /\ seen'[c] = Written(c, out[c]) /\ hpc[c] = "write" /\ hpc'[c] = "select"
        /\ UNCHANGED <<version, chan>>
    BY <1>0, <1>4 DEF Write, fanout
  <2>2. seen'[c].styles = LastMap(c)
    <3>1. Bytes(out[c]) = out[c].data /\ out[c].kind \in {"packet", "styles", "status"}
      BY <1>0, WrittenType, FrameData DEF IInv
    <3> QED
      BY <1>0, <2>1, <3>1 DEF Written, LastMap, WritingMap
  <2>3. LastMap(c)' = LastMap(c)
    BY <2>1, <2>2 DEF LastMap, WritingMap
  <2> QED
    BY <1>0, <2>1, <2>2, <2>3 DEF MapsInv
<1>5. CASE WriteFails(c) \/ Remove(c)
  <2>1. /\ chan'[c] \in {chan[c], <<>>} /\ hpc'[c] \in {"remove", "done"}
        /\ UNCHANGED <<version, seen>>
    BY <1>0, <1>5 DEF WriteFails, Remove, RemoveUnlocked, fanout
  <2>2. LastMap(c)' = seen[c].styles /\ seen[c].styles <= LastMap(c) /\ LastMap(c) <= version
    BY <2>1 DEF LastMap, WritingMap, MapsInv
  <2>3. \A i \in 1 .. Len(chan[c]) : chan[c][i].data \in Nat
    BY <1>0, FrameData
  <2>4. MapsOrdered(chan[c], seen[c].styles)
    BY <1>0, <2>2, <2>3 DEF MapsInv, MapsOrdered
  <2>5. MapsOrdered(<<>>, seen[c].styles)
    BY DEF MapsOrdered
  <2> QED
    BY <1>0, <2>1, <2>2, <2>4, <2>5 DEF MapsInv
<1> QED
  BY <1>1, <1>2, <1>3, <1>4, <1>5

(* Every step keeps every channel's maps in order, as long as one PUT is   *)
(* under way at a time.                                                    *)
LEMMA StepKeepsMaps ==
    ASSUME IInv, CastsAreNew, \A c \in Conns : MapsInv(c), [Next]_vars, NEW d \in Conns
    PROVE  MapsInv(d)' /\ seen'[d].styles >= seen[d].styles
<1>0. /\ version \in Nat /\ seen[d].styles \in Nat
      /\ chan \in [Conns -> Seq(Frames)] /\ DOMAIN hpc = Conns /\ DOMAIN out = Conns
      /\ seen \in [Conns -> [packet : Nat, packets : Nat, styles : Nat]]
  BY MapTypes DEF IInv, TypeOK
<1>1. ASSUME version' \in Nat, version <= version', UNCHANGED <<chan[d], out[d], seen[d]>>,
             hpc'[d] = "write" <=> hpc[d] = "write"
      PROVE  MapsInv(d)' /\ seen'[d].styles >= seen[d].styles
  BY <1>0, <1>1, SameMaps
<1>2. ASSUME NEW c \in Conns,
             \/ \E t \in Casters : Send(t, c)
             \/ FirstFrame(c) \/ Take(c) \/ Write(c) \/ WriteFails(c) \/ Remove(c)
      PROVE  MapsInv(d)' /\ seen'[d].styles >= seen[d].styles
  <2>1. CASE c = d
    <3>1. MapsInv(d)'
      BY <1>2, <2>1, ChannelStepKeepsMaps
    <3>2. CASE Write(d)
      <4>1. Bytes(out[d]) = out[d].data /\ seen'[d] = Written(d, out[d]) /\ hpc[d] = "write"
        BY <1>0, <3>2, WrittenType DEF IInv, Write
      <4>2. seen'[d].styles \in {seen[d].styles, LastMap(d)}
        <5>1. out[d].kind \in {"packet", "styles", "status"}
          BY FrameData, MapTypes
        <5> QED
          BY <1>0, <4>1, <5>1 DEF Written, LastMap, WritingMap
      <4>3. LastMap(d) \in Nat /\ seen[d].styles <= LastMap(d)
        BY MapTypes DEF MapsInv
      <4> QED
        BY <1>0, <3>1, <4>2, <4>3
    <3>3. CASE ~Write(d)
      <4>1. seen' = seen
        BY <1>2, <2>1, <3>3 DEF Send, FirstFrame, Take, WriteFails, Remove, RemoveUnlocked, handlers
      <4> QED
        BY <1>0, <3>1, <4>1
    <3> QED
      BY <3>1, <3>2, <3>3
  <2>2. CASE c # d
    <3>1. version' = version
      BY <1>2 DEF Send, FirstFrame, Take, Write, WriteFails, Remove, RemoveUnlocked, fanout
    <3>2. UNCHANGED <<chan[d], out[d], seen[d], hpc[d]>>
      <4>1. ASSUME NEW t \in Casters, Send(t, c) PROVE UNCHANGED <<chan[d], out[d], seen[d], hpc[d]>>
        BY <1>0, <2>2, <4>1 DEF Send, Enqueue, Drop, handlers
      <4>2. CASE FirstFrame(c)
        BY <1>0, <2>2, <4>2 DEF FirstFrame
      <4>3. CASE Take(c)
        BY <1>0, <2>2, <4>3 DEF Take
      <4>4. CASE Write(c)
        BY <1>0, <2>2, <4>4 DEF Write
      <4>5. CASE WriteFails(c)
        BY <1>0, <2>2, <4>5 DEF WriteFails
      <4>6. CASE Remove(c)
        BY <1>0, <2>2, <4>6 DEF Remove, RemoveUnlocked
      <4> QED
        BY <1>2, <4>1, <4>2, <4>3, <4>4, <4>5, <4>6
    <3> QED
      BY <1>0, <1>1, <3>1, <3>2
  <2> QED
    BY <2>1, <2>2
<1>3. ASSUME UNCHANGED <<chan, handlers>>, version' \in Nat, version <= version'
      PROVE  MapsInv(d)' /\ seen'[d].styles >= seen[d].styles
  BY <1>1, <1>3 DEF handlers
<1>4. ASSUME NEW t \in Casters, Lock(t) \/ Unlock(t)
      PROVE  MapsInv(d)' /\ seen'[d].styles >= seen[d].styles
  BY <1>0, <1>3, <1>4 DEF Lock, Unlock, fanout
<1>5. ASSUME (\E size \in Sizes : Read(size)) \/ Relay \/ Tick
      PROVE  MapsInv(d)' /\ seen'[d].styles >= seen[d].styles
  BY <1>0, <1>3, <1>5 DEF Read, Relay, Tick, fanout
<1>6. ASSUME NEW p \in Putters, SetStyle(p) \/ Snapshot(p) \/ Answer(p)
      PROVE  MapsInv(d)' /\ seen'[d].styles >= seen[d].styles
  BY <1>0, <1>3, <1>6 DEF SetStyle, Snapshot, Answer, fanout
<1>7. ASSUME NEW c \in Conns, Accept(c) \/ Done(c) \/ Add(c) \/ Peer(c)
      PROVE  MapsInv(d)' /\ seen'[d].styles >= seen[d].styles
  <2>1. UNCHANGED <<version, chan, out, seen>>
    BY <1>7 DEF Accept, Done, Add, Peer, fanout
  <2>2. hpc'[d] = "write" <=> hpc[d] = "write"
    BY <1>0, <1>7 DEF Accept, Done, Add, Peer
  <2> QED
    BY <1>0, <1>1, <2>1, <2>2
<1>8. CASE UNCHANGED vars
  BY <1>0, <1>3, <1>8 DEF vars, fanout
<1> QED
  BY <1>2, <1>4, <1>5, <1>6, <1>7, <1>8 DEF Next, Cast, Put, Handle

(* As long as PUTs do not overlap, no browser is sent an older map after a *)
(* newer one, whoever connects, sleeps or misses maps meanwhile: what      *)
(* MapsNeverGoBack lacks in the code is one lock over an edit and its      *)
(* broadcast, and no more (hub.go:229-243).                                *)
THEOREM MapsGoForwardAlone == Spec /\ []OnePut => MapsNeverGoBack
<1> DEFINE Inv == IInv /\ CastsAreNew /\ \A c \in Conns : MapsInv(c)
<1>1. Init => CastsAreNew /\ \A c \in Conns : MapsInv(c)
  BY CasterFacts DEF Init, CastsAreNew, MapsInv, MapsOrdered, LastMap, WritingMap
<1>2. ASSUME Inv, OnePut', [Next]_vars
      PROVE  Inv' /\ [\A c \in Conns : seen'[c].styles >= seen[c].styles]_seen
  BY <1>2, StepKeepsIInv, StepKeepsCasts, StepKeepsMaps
<1> QED
  BY <1>1, <1>2, InitIInv, PTL DEF Spec, MapsNeverGoBack

-----------------------------------------------------------------------------
(* No map changes while a handler is between its first frame and its       *)
(* registration.                                                           *)
NoneConnecting == [][\A c \in Conns : hpc[c] = "add" => version' = version]_vars

(* Then only a full channel can make a client miss a map. *)
LEMMA StepMissesOnlyFull ==
    ASSUME TypeOK, \A c \in Conns : "connecting" \notin missed[c], [Next]_vars,
           [\A c \in Conns : hpc[c] = "add" => version' = version]_vars
    PROVE  \A c \in Conns : "connecting" \notin missed'[c]
<1>0. missed \in [Conns -> SUBSET {"full", "connecting"}] /\ version \in Nat
  BY DEF TypeOK
<1>1. ASSUME NEW t \in Casters, NEW c \in Conns, Send(t, c)
      PROVE  \A d \in Conns : "connecting" \notin missed'[d]
  BY <1>0, <1>1 DEF Send, Enqueue, Drop
<1>2. ASSUME NEW p \in Putters, SetStyle(p)
      PROVE  \A d \in Conns : "connecting" \notin missed'[d]
  <2>1. version' # version
    BY <1>0, <1>2 DEF SetStyle
  <2>2. vars' # vars
    BY <2>1 DEF vars, fanout
  <2>3. \A d \in Conns : hpc[d] # "add"
    BY <2>1, <2>2
  <2> QED
    BY <1>0, <1>2, <2>3 DEF SetStyle
<1>3. ASSUME missed' = missed PROVE \A d \in Conns : "connecting" \notin missed'[d]
  BY <1>3
<1>4. ASSUME NEW t \in Casters, Lock(t) \/ Unlock(t) PROVE missed' = missed
  BY <1>4 DEF Lock, Unlock, history
<1>5. ASSUME (\E size \in Sizes : Read(size)) \/ Relay \/ Tick PROVE missed' = missed
  BY <1>5 DEF Read, Relay, Tick, history
<1>6. ASSUME NEW p \in Putters, Put(p) PROVE missed' = missed
  BY <1>6 DEF Put, Snapshot, Answer, history
<1>7. ASSUME NEW c \in Conns, Accept(c) \/ Handle(c) \/ Add(c) \/ Remove(c) \/ Peer(c)
      PROVE  missed' = missed
  BY <1>7 DEF Accept, Handle, FirstFrame, Take, Done, Write, WriteFails, Add, Remove, RemoveUnlocked,
              Peer, history
<1>8. CASE UNCHANGED vars
  BY <1>3, <1>8 DEF vars, history
<1> QED
  BY <1>1, <1>2, <1>3, <1>4, <1>5, <1>6, <1>7, <1>8 DEF Next, Cast

(* Outside of that window a change does reach every registered client when *)
(* its PUT is answered, unless the client's channel was full (DESIGN.md:78,*)
(* hub.go:192-193).                                                        *)
THEOREM ChangeReachesAllElse == Spec /\ NoneConnecting => []ChangeReachesEveryClient
<1>1. Init => \A c \in Conns : "connecting" \notin missed[c]
  BY DEF Init
<1>2. IInv /\ AnsweredMeansQueued /\ (\A c \in Conns : "connecting" \notin missed[c])
      => ChangeReachesEveryClient
  <2> SUFFICES ASSUME IInv, AnsweredMeansQueued, \A c \in Conns : "connecting" \notin missed[c]
               PROVE  ChangeReachesEveryClient
    OBVIOUS
  <2>0. missed \in [Conns -> SUBSET {"full", "connecting"}] /\ clients \subseteq Conns
    BY DEF IInv, TypeOK
  <2>1. ASSUME NEW c \in clients, missed[c] # {} PROVE "full" \in missed[c]
    <3>1. PICK w \in missed[c] : TRUE
      BY <2>1
    <3>2. w \in {"full", "connecting"} /\ "connecting" \notin missed[c]
      BY <2>0, <3>1
    <3> QED
      BY <3>1, <3>2
  <2> QED
    BY <2>1 DEF AnsweredMeansQueued, ChangeReachesEveryClient
<1>3. IInv => TypeOK
  BY DEF IInv
<1>4. ASSUME TypeOK, \A c \in Conns : "connecting" \notin missed[c], [Next]_vars,
             [\A c \in Conns : hpc[c] = "add" => version' = version]_vars
      PROVE  (\A c \in Conns : "connecting" \notin missed[c])'
  BY <1>4, StepMissesOnlyFull
<1> QED
  BY <1>1, <1>2, <1>3, <1>4, SpecIInv, AnsweredChangeIsQueued, PTL DEF Spec, NoneConnecting
=============================================================================
