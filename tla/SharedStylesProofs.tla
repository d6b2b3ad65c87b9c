-------------------------- MODULE SharedStylesProofs --------------------------
(***************************************************************************)
(* A connected page at rest knows the server's map, for any devices, cars, *)
(* styles and picks.                                                       *)
(***************************************************************************)
EXTENDS SharedStyles, TLAPS

(* Without overlaps, one PUT at a time is between its edit and its cast,   *)
(* and what it will cast is the server's map.                              *)
OneHalfway ==
    ~overlapped => /\ \A p, q \in Halfway : p = q
                   /\ \A p \in DOMAIN puts : puts[p].stage = "marshalled" => puts[p].map = saved

(* The last map on its way to a page is the server's, or the page knows it *)
(* already but for picks of its own that are not saved.                    *)
Awaiting(b) == \E p \in DOMAIN puts : puts[p].by = b /\ puts[p].stage = "sent"
Informed(b) ==
    /\ frames[b] # <<>> => frames[b][Len(frames[b])] = saved
    /\ frames[b] = <<>> /\ ~Awaiting(b) /\ ~strayed[b] => carStyles[b] = saved
InReach(b) == conn[b] = "greeted" \/ (conn[b] = "on" /\ Halfway = {})
AllInformed == \A b \in Browsers : ~overlapped /\ ~missed[b] /\ InReach(b) => Informed(b)

SInv == TypeOK /\ OneHalfway /\ AllInformed

-----------------------------------------------------------------------------
(* What becomes of the PUTs when one of them goes on to another stage.     *)
Stages == {"sent", "edited", "marshalled", "done", "lost"}
Moved(p, stage, map) == [puts EXCEPT ![p].stage = stage, ![p].map = map]

(* Only that PUT changes, and not its sender. *)
LEMMA PutMoves ==
    ASSUME TypeOK, NEW p \in DOMAIN puts, NEW stage \in Stages, NEW map \in Maps,
           puts' = Moved(p, stage, map)
    PROVE  /\ puts' \in Seq(Puts) /\ DOMAIN puts' = DOMAIN puts
           /\ puts'[p].stage = stage /\ puts'[p].map = map /\ puts'[p].by = puts[p].by
           /\ \A q \in DOMAIN puts : q # p => puts'[q] = puts[q]
<1>1. puts \in Seq(Puts) /\ puts[p] \in Puts
  BY DEF TypeOK
<1> DEFINE r == [puts[p] EXCEPT !.stage = stage, !.map = map]
<1>2. r \in Puts /\ r.stage = stage /\ r.map = map /\ r.by = puts[p].by
  BY <1>1 DEF Puts, Stages
<1>3. puts' = [puts EXCEPT ![p] = r]
  BY <1>1 DEF Moved
<1> HIDE DEF r
<1> QED BY <1>1, <1>2, <1>3

(* A new stage alone is such a move, too. *)
LEMMA StageMoves ==
    ASSUME TypeOK, NEW p \in DOMAIN puts, NEW stage \in Stages
    PROVE  [puts EXCEPT ![p].stage = stage] = Moved(p, stage, puts[p].map) /\ puts[p].map \in Maps
<1>1. puts \in Seq(Puts) /\ puts[p] \in Puts
  BY DEF TypeOK
<1>2. [puts[p] EXCEPT !.stage = stage] = [puts[p] EXCEPT !.stage = stage, !.map = puts[p].map]
  BY <1>1 DEF Puts
<1> QED BY <1>1, <1>2 DEF Moved, Puts

(* A pick adds a PUT. *)
LEMMA PutAdded ==
    ASSUME TypeOK, NEW r \in Puts, puts' = Append(puts, r)
    PROVE  /\ puts' \in Seq(Puts) /\ DOMAIN puts' = DOMAIN puts \cup {Len(puts) + 1}
           /\ puts'[Len(puts) + 1] = r
           /\ \A q \in DOMAIN puts : puts'[q] = puts[q]
BY DEF TypeOK

(* What is at the end of a queue after one came or one went. *)
LEMMA QueueEnds ==
    ASSUME NEW s \in Seq(Maps)
    PROVE  /\ \A m \in Maps : /\ Append(s, m) \in Seq(Maps) /\ Append(s, m) # <<>>
                              /\ Append(s, m)[Len(Append(s, m))] = m
           /\ s # <<>> => /\ Tail(s) \in Seq(Maps) /\ Head(s) \in Maps
                          /\ Tail(s) # <<>> => Tail(s)[Len(Tail(s))] = s[Len(s)]
                          /\ Tail(s) = <<>> => Head(s) = s[Len(s)]
<1>1. ASSUME NEW m \in Maps
      PROVE /\ Append(s, m) \in Seq(Maps) /\ Append(s, m) # <<>>
            /\ Append(s, m)[Len(Append(s, m))] = m
  OBVIOUS
<1>2. CASE s # <<>>
  <2>1. Len(s) > 0 /\ Len(s) \in Nat /\ Tail(s) \in Seq(Maps) /\ Len(Tail(s)) = Len(s) - 1 /\ Head(s) = s[1] /\ s[1] \in Maps
    BY <1>2
  <2>2. CASE Tail(s) = <<>>
    BY <2>1, <2>2
  <2>3. CASE Tail(s) # <<>>
    BY <2>1, <2>3
  <2> QED BY <2>1, <2>2, <2>3
<1> QED BY <1>1, <1>2

-----------------------------------------------------------------------------
(* Nothing has happened yet. *)
LEMMA SInvInit == Init => SInv
<1> SUFFICES ASSUME Init PROVE SInv
  OBVIOUS
<1>1. Empty \in Maps /\ <<>> \in Seq(Puts) /\ <<>> \in Seq(Maps)
  BY DEF Empty, Maps
<1>2. TypeOK
  BY <1>1 DEF Init, TypeOK
<1>3. OneHalfway
  BY DEF Init, OneHalfway, Halfway
<1>4. AllInformed
  BY DEF Init, AllInformed, InReach
<1> QED BY <1>2, <1>3, <1>4 DEF SInv

(* A pick puts a page's map ahead of the server's. *)
LEMMA PickStep ==
    ASSUME SInv, NEW b \in Browsers, NEW c \in Cars, NEW s \in Styles, Pick(b, c, s)
    PROVE  SInv'
<1> DEFINE r == [by |-> b, car |-> c, style |-> s, stage |-> "sent", map |-> Empty]
<1>1. r \in Puts /\ Empty \in Maps
  BY DEF Puts, Empty, Maps
<1>2. TypeOK
  BY DEF SInv
<1>3. puts' = Append(puts, r)
  BY DEF Pick
<1>4. /\ puts' \in Seq(Puts) /\ DOMAIN puts' = DOMAIN puts \cup {Len(puts) + 1}
      /\ puts'[Len(puts) + 1] = r
      /\ \A q \in DOMAIN puts : puts'[q] = puts[q]
  <2> HIDE DEF r
  <2> QED BY <1>1, <1>2, <1>3, PutAdded
<1>5. carStyles' \in [Browsers -> Maps] /\ \A o \in Browsers : o # b => carStyles'[o] = carStyles[o]
  <2>1. [carStyles[b] EXCEPT ![c] = s] \in Maps
    BY <1>2 DEF TypeOK, Maps
  <2>2. carStyles' = [carStyles EXCEPT ![b] = [carStyles[b] EXCEPT ![c] = s]]
    BY <1>2 DEF Pick, TypeOK
  <2> QED BY <1>2, <2>1, <2>2 DEF TypeOK
<1>6. TypeOK'
  BY <1>2, <1>4, <1>5 DEF Pick, TypeOK
<1>7. r.stage = "sent" /\ r.by = b
  OBVIOUS
<1>8. Halfway' = Halfway
  <2> HIDE DEF r
  <2> QED BY <1>4, <1>7 DEF Halfway
<1>9. OneHalfway'
  <2> HIDE DEF r
  <2>1. UNCHANGED <<saved, overlapped>>
    BY DEF Pick
  <2> QED BY <1>4, <1>7, <1>8, <2>1 DEF SInv, OneHalfway
<1>10. AllInformed'
  <2> SUFFICES ASSUME NEW o \in Browsers, ~overlapped', ~missed'[o], InReach(o)' PROVE Informed(o)'
    BY DEF AllInformed
  <2>1. UNCHANGED <<saved, overlapped, conn, frames, strayed, missed>>
    BY DEF Pick
  <2>2. Informed(o)
    BY <1>8, <2>1 DEF SInv, AllInformed, InReach
  <2> HIDE DEF r
  <2>3. Awaiting(o) => Awaiting(o)'
    BY <1>4 DEF Awaiting
  <2>4. CASE o = b
    <3>1. Awaiting(o)'
      BY <1>4, <1>7, <2>4 DEF Awaiting
    <3> QED BY <2>1, <2>2, <3>1 DEF Informed
  <2>5. CASE o # b
    BY <1>5, <2>1, <2>2, <2>3, <2>5 DEF Informed
  <2> QED BY <2>4, <2>5
<1> QED BY <1>6, <1>9, <1>10 DEF SInv

(* A page that hears the last map on its way knows the server's.           *)
LEMMA HearStep ==
    ASSUME SInv, NEW b \in Browsers, Hear(b)
    PROVE  SInv'
<1>1. TypeOK /\ frames[b] \in Seq(Maps) /\ frames[b] # <<>>
  BY DEF SInv, TypeOK, Hear
<1>2. /\ Tail(frames[b]) \in Seq(Maps) /\ Head(frames[b]) \in Maps
      /\ Tail(frames[b]) # <<>> => Tail(frames[b])[Len(Tail(frames[b]))] = frames[b][Len(frames[b])]
      /\ Tail(frames[b]) = <<>> => Head(frames[b]) = frames[b][Len(frames[b])]
  BY <1>1, QueueEnds
<1>3. /\ frames' = [frames EXCEPT ![b] = Tail(frames[b])]
      /\ carStyles' = [carStyles EXCEPT ![b] = Head(frames[b])]
      /\ strayed' = [strayed EXCEPT ![b] = FALSE]
      /\ UNCHANGED <<saved, puts, overlapped, conn, missed>>
  BY DEF Hear, Heard, server
<1>4. TypeOK'
  BY <1>1, <1>2, <1>3 DEF TypeOK
<1>5. OneHalfway' /\ Halfway' = Halfway
  BY <1>3 DEF SInv, OneHalfway, Halfway
<1>6. AllInformed'
  <2> SUFFICES ASSUME NEW o \in Browsers, ~overlapped', ~missed'[o], InReach(o)' PROVE Informed(o)'
    BY DEF AllInformed
  <2>1. Informed(o)
    BY <1>3, <1>5 DEF SInv, AllInformed, InReach
  <2>2. CASE o # b
    <3>1. frames'[o] = frames[o] /\ carStyles'[o] = carStyles[o] /\ strayed'[o] = strayed[o]
      BY <1>1, <1>3, <2>2 DEF TypeOK
    <3> QED BY <1>3, <2>1, <3>1 DEF Informed, Awaiting
  <2>3. CASE o = b
    <3>1. frames'[o] = Tail(frames[o]) /\ carStyles'[o] = Head(frames[o])
      BY <1>1, <1>3, <2>3 DEF TypeOK
    <3>2. frames[o][Len(frames[o])] = saved
      BY <1>1, <2>1, <2>3 DEF Informed
    <3> QED BY <1>2, <1>3, <2>3, <3>1, <3>2 DEF Informed
  <2> QED BY <2>2, <2>3
<1> QED BY <1>4, <1>5, <1>6 DEF SInv

(* A page that leaves is out of reach.                                     *)
LEMMA LeaveStep ==
    ASSUME SInv, NEW b \in Browsers, Drop(b) \/ Reload(b)
    PROVE  SInv'
<1>1. TypeOK
  BY DEF SInv
<1>2. /\ conn' = [conn EXCEPT ![b] = "off"]
      /\ frames' = [frames EXCEPT ![b] = <<>>]
      /\ carStyles' \in [Browsers -> Maps] /\ \A o \in Browsers : o # b => carStyles'[o] = carStyles[o]
      /\ UNCHANGED <<saved, puts, overlapped, strayed, missed>>
  <2>1. CASE Drop(b)
    BY <1>1, <2>1 DEF Drop, server, TypeOK
  <2>2. CASE Reload(b)
    <3>1. Empty \in Maps
      BY DEF Empty, Maps
    <3> QED BY <1>1, <2>2, <3>1 DEF Reload, server, TypeOK
  <2> QED BY <2>1, <2>2
<1>3. <<>> \in Seq(Maps)
  OBVIOUS
<1>4. TypeOK'
  BY <1>1, <1>2, <1>3 DEF TypeOK
<1>5. OneHalfway' /\ Halfway' = Halfway
  BY <1>2 DEF SInv, OneHalfway, Halfway
<1>6. AllInformed'
  <2> SUFFICES ASSUME NEW o \in Browsers, ~overlapped', ~missed'[o], InReach(o)' PROVE Informed(o)'
    BY DEF AllInformed
  <2>1. o # b
    BY <1>1, <1>2 DEF InReach, TypeOK
  <2>2. conn'[o] = conn[o] /\ frames'[o] = frames[o] /\ carStyles'[o] = carStyles[o]
    BY <1>1, <1>2, <2>1 DEF TypeOK
  <2>3. Informed(o)
    BY <1>2, <1>5, <2>2 DEF SInv, AllInformed, InReach
  <2> QED BY <1>2, <2>2, <2>3 DEF Informed, Awaiting
<1> QED BY <1>4, <1>5, <1>6 DEF SInv

(* A new client is greeted with the server's map.                          *)
LEMMA ConnectStep ==
    ASSUME SInv, NEW b \in Browsers, Connect(b)
    PROVE  SInv'
<1>1. TypeOK
  BY DEF SInv
<1>2. /\ conn' = [conn EXCEPT ![b] = "greeted"]
      /\ frames' = [frames EXCEPT ![b] = <<saved>>]
      /\ missed' = [missed EXCEPT ![b] = FALSE]
      /\ UNCHANGED <<saved, puts, overlapped, carStyles, strayed>>
  BY DEF Connect, Greeting, server
<1>3. <<saved>> \in Seq(Maps) /\ <<saved>> # <<>> /\ <<saved>>[Len(<<saved>>)] = saved
  BY <1>1 DEF TypeOK
<1>4. TypeOK'
  BY <1>1, <1>2, <1>3 DEF TypeOK
<1>5. OneHalfway' /\ Halfway' = Halfway
  BY <1>2 DEF SInv, OneHalfway, Halfway
<1>6. AllInformed'
  <2> SUFFICES ASSUME NEW o \in Browsers, ~overlapped', ~missed'[o], InReach(o)' PROVE Informed(o)'
    BY DEF AllInformed
  <2>1. CASE o = b
    <3>1. frames'[o] = <<saved>>
      BY <1>1, <1>2, <2>1 DEF TypeOK
    <3> QED BY <1>2, <1>3, <3>1 DEF Informed
  <2>2. CASE o # b
    <3>1. conn'[o] = conn[o] /\ frames'[o] = frames[o] /\ missed'[o] = missed[o]
      BY <1>1, <1>2, <2>2 DEF TypeOK
    <3>2. Informed(o)
      BY <1>2, <1>5, <3>1 DEF SInv, AllInformed, InReach
    <3> QED BY <1>2, <3>1, <3>2 DEF Informed, Awaiting
  <2> QED BY <2>1, <2>2
<1> QED BY <1>4, <1>5, <1>6 DEF SInv

(* A greeted page that is registered has missed nothing, or is on record. *)
LEMMA RegisterStep ==
    ASSUME SInv, NEW b \in Browsers, Register(b)
    PROVE  SInv'
<1>1. TypeOK
  BY DEF SInv
<1>2. /\ conn[b] = "greeted" /\ conn' = [conn EXCEPT ![b] = "on"]
      /\ UNCHANGED <<saved, puts, overlapped, frames, carStyles, strayed, missed>>
  BY DEF Register, server
<1>3. TypeOK'
  BY <1>1, <1>2 DEF TypeOK
<1>4. OneHalfway' /\ Halfway' = Halfway
  BY <1>2 DEF SInv, OneHalfway, Halfway
<1>5. AllInformed'
  <2> SUFFICES ASSUME NEW o \in Browsers, ~overlapped', ~missed'[o], InReach(o)' PROVE Informed(o)'
    BY DEF AllInformed
  <2>1. InReach(o)
    BY <1>1, <1>2, <1>4 DEF InReach, TypeOK
  <2>2. Informed(o)
    BY <1>2, <2>1 DEF SInv, AllInformed
  <2> QED BY <1>2, <2>2 DEF Informed, Awaiting
<1> QED BY <1>3, <1>4, <1>5 DEF SInv

-----------------------------------------------------------------------------
(* A saved PUT is halfway, alone or overlapping another.                   *)
LEMMA SaveStep ==
    ASSUME SInv, NEW p \in DOMAIN puts, Save(p)
    PROVE  SInv'
<1>1. TypeOK /\ puts[p] \in Puts
  BY DEF SInv, TypeOK
<1>2. puts' = Moved(p, "edited", puts[p].map) /\ puts[p].map \in Maps
  BY <1>1, StageMoves DEF Save, Stages
<1>3. /\ puts' \in Seq(Puts) /\ DOMAIN puts' = DOMAIN puts
      /\ puts'[p].stage = "edited" /\ puts'[p].by = puts[p].by
      /\ \A q \in DOMAIN puts : q # p => puts'[q] = puts[q]
  BY <1>1, <1>2, PutMoves DEF Stages
<1>4. saved' \in Maps
  BY <1>1 DEF Save, Puts, Maps, TypeOK
<1>5. missed' = [b \in Browsers |-> missed[b] \/ conn[b] = "greeted"] /\ overlapped' = (overlapped \/ Halfway # {})
  BY DEF Save
<1>6. missed' \in [Browsers -> BOOLEAN] /\ overlapped' \in BOOLEAN
  BY <1>1, <1>5 DEF TypeOK
<1>7. TypeOK'
  BY <1>1, <1>3, <1>4, <1>6 DEF TypeOK, Save
<1>8. p \in Halfway'
  BY <1>3 DEF Halfway
<1>9. OneHalfway'
  <2> SUFFICES ASSUME ~overlapped'
               PROVE  /\ \A q \in Halfway' : q = p
                      /\ \A q \in DOMAIN puts' : puts'[q].stage # "marshalled"
    BY DEF OneHalfway
  <2>1. Halfway = {}
    BY <1>5
  <2>2. \A q \in DOMAIN puts : q # p => puts'[q].stage \notin {"edited", "marshalled"}
    BY <1>3, <2>1 DEF Halfway
  <2> QED BY <1>3, <2>2 DEF Halfway
<1>10. AllInformed'
  <2> SUFFICES ASSUME NEW o \in Browsers, ~missed'[o], InReach(o)' PROVE FALSE
    BY DEF AllInformed
  <2>1. conn[o] # "greeted" /\ conn' = conn
    BY <1>5 DEF Save
  <2> QED BY <1>8, <2>1 DEF InReach
<1> QED BY <1>7, <1>9, <1>10 DEF SInv

(* Marshalling takes the server's map.                                     *)
LEMMA MarshalStep ==
    ASSUME SInv, NEW p \in DOMAIN puts, Marshal(p)
    PROVE  SInv'
<1>1. TypeOK /\ puts[p] \in Puts /\ saved \in Maps
  BY DEF SInv, TypeOK
<1>2. puts' = Moved(p, "marshalled", saved)
  BY DEF Marshal, Moved
<1>3. /\ puts' \in Seq(Puts) /\ DOMAIN puts' = DOMAIN puts
      /\ puts'[p].stage = "marshalled" /\ puts'[p].map = saved /\ puts'[p].by = puts[p].by
      /\ \A q \in DOMAIN puts : q # p => puts'[q] = puts[q]
  BY <1>1, <1>2, PutMoves DEF Stages
<1>4. UNCHANGED <<saved, overlapped, conn, frames, carStyles, strayed, missed>> /\ puts[p].stage = "edited"
  BY DEF Marshal
<1>5. TypeOK'
  BY <1>1, <1>3, <1>4 DEF TypeOK
<1>6. Halfway' = Halfway
  BY <1>3, <1>4 DEF Halfway
<1>7. OneHalfway'
  BY <1>3, <1>4, <1>6 DEF SInv, OneHalfway
<1>8. \A o : Awaiting(o)' <=> Awaiting(o)
  BY <1>3, <1>4 DEF Awaiting
<1>9. AllInformed'
  <2> SUFFICES ASSUME NEW o \in Browsers, ~overlapped', ~missed'[o], InReach(o)' PROVE Informed(o)'
    BY DEF AllInformed
  <2>1. Informed(o)
    BY <1>4, <1>6 DEF SInv, AllInformed, InReach
  <2> QED BY <1>4, <1>8, <2>1 DEF Informed
<1> QED BY <1>5, <1>7, <1>9 DEF SInv

(* The cast ends with the server's map in every client's channel.          *)
LEMMA CastStep ==
    ASSUME SInv, NEW p \in DOMAIN puts, Cast(p)
    PROVE  SInv'
<1>1. TypeOK /\ puts[p] \in Puts /\ puts[p].map \in Maps /\ Empty \in Maps
  <2>1. Empty \in Maps
    BY DEF Empty, Maps
  <2>2. TypeOK /\ puts[p] \in Puts
    BY DEF SInv, TypeOK
  <2>3. puts[p].map \in Maps
    BY <2>2 DEF Puts
  <2> QED BY <2>1, <2>2, <2>3
<1>2. puts' = Moved(p, "done", Empty)
  BY DEF Cast, Moved
<1>3. /\ puts' \in Seq(Puts) /\ DOMAIN puts' = DOMAIN puts
      /\ puts'[p].stage = "done" /\ puts'[p].by = puts[p].by
      /\ \A q \in DOMAIN puts : q # p => puts'[q] = puts[q]
  BY <1>1, <1>2, PutMoves DEF Stages
<1>4. /\ UNCHANGED <<saved, overlapped, conn, carStyles, strayed, missed>> /\ puts[p].stage = "marshalled"
      /\ frames' = [b \in Browsers |-> IF b \in Listeners(p) THEN Append(frames[b], puts[p].map) ELSE frames[b]]
  BY DEF Cast
<1>5. ASSUME NEW b \in Browsers
      PROVE  /\ frames'[b] \in Seq(Maps)
             /\ conn[b] = "on" => frames'[b] # <<>> /\ frames'[b][Len(frames'[b])] = puts[p].map
             /\ conn[b] # "on" => frames'[b] = frames[b]
  <2>1. frames[b] \in Seq(Maps)
    BY <1>1 DEF TypeOK
  <2> QED BY <1>1, <1>4, <2>1, QueueEnds DEF Listeners
<1>6. TypeOK'
  <2>1. frames' \in [Browsers -> Seq(Maps)]
    BY <1>4, <1>5
  <2> QED BY <1>1, <1>3, <1>4, <2>1 DEF TypeOK
<1>7. Halfway' \subseteq Halfway
  BY <1>3 DEF Halfway
<1>8. OneHalfway'
  BY <1>3, <1>4, <1>7 DEF SInv, OneHalfway
<1>9. AllInformed'
  <2> SUFFICES ASSUME NEW o \in Browsers, ~overlapped', ~missed'[o], InReach(o)' PROVE Informed(o)'
    BY DEF AllInformed
  <2>1. CASE conn[o] = "on"
    <3>1. puts[p].map = saved
      BY <1>4 DEF SInv, OneHalfway
    <3> QED BY <1>4, <1>5, <2>1, <3>1 DEF Informed
  <2>2. CASE conn[o] # "on"
    <3>1. Informed(o)
      BY <1>4, <2>2 DEF SInv, AllInformed, InReach
    <3>2. Awaiting(o) => Awaiting(o)'
      BY <1>3, <1>4 DEF Awaiting
    <3> QED BY <1>4, <1>5, <2>2, <3>1, <3>2 DEF Informed
  <2> QED BY <2>1, <2>2
<1> QED BY <1>6, <1>8, <1>9 DEF SInv

(* A lost PUT leaves its page astray.                                      *)
LEMMA LoseStep ==
    ASSUME SInv, NEW p \in DOMAIN puts, Lose(p)
    PROVE  SInv'
<1>1. TypeOK /\ puts[p] \in Puts
  BY DEF SInv, TypeOK
<1>2. puts' = Moved(p, "lost", puts[p].map) /\ puts[p].map \in Maps
  BY <1>1, StageMoves DEF Lose, Stages
<1>3. /\ puts' \in Seq(Puts) /\ DOMAIN puts' = DOMAIN puts
      /\ puts'[p].stage = "lost" /\ puts'[p].by = puts[p].by
      /\ \A q \in DOMAIN puts : q # p => puts'[q] = puts[q]
  BY <1>1, <1>2, PutMoves DEF Stages
<1>4. /\ UNCHANGED <<saved, overlapped, conn, frames, carStyles, missed>> /\ puts[p].stage = "sent"
      /\ strayed' = [strayed EXCEPT ![puts[p].by] = TRUE] /\ puts[p].by \in Browsers
  BY <1>1 DEF Lose, Puts
<1>5. TypeOK'
  BY <1>1, <1>3, <1>4 DEF TypeOK
<1>6. Halfway' = Halfway
  BY <1>3, <1>4 DEF Halfway
<1>7. OneHalfway'
  BY <1>3, <1>4, <1>6 DEF SInv, OneHalfway
<1>8. AllInformed'
  <2> SUFFICES ASSUME NEW o \in Browsers, ~overlapped', ~missed'[o], InReach(o)' PROVE Informed(o)'
    BY DEF AllInformed
  <2>1. Informed(o)
    BY <1>4, <1>6 DEF SInv, AllInformed, InReach
  <2>2. CASE o = puts[p].by
    <3>1. strayed'[o]
      BY <1>1, <1>4, <2>2 DEF TypeOK
    <3> QED BY <1>4, <2>1, <3>1 DEF Informed
  <2>3. CASE o # puts[p].by
    <3>1. strayed'[o] = strayed[o]
      BY <1>1, <1>4, <2>3 DEF TypeOK
    <3>2. Awaiting(o) => Awaiting(o)'
      BY <1>3, <2>3 DEF Awaiting
    <3> QED BY <1>4, <2>1, <3>1, <3>2 DEF Informed
  <2> QED BY <2>2, <2>3
<1> QED BY <1>5, <1>7, <1>8 DEF SInv

(* The invariant holds all along.                                          *)
LEMMA SInvAlways == Spec => []SInv
<1>1. SInv /\ UNCHANGED vars => SInv'
  <2> SUFFICES ASSUME SInv, UNCHANGED vars PROVE SInv'
    OBVIOUS
  <2>1. UNCHANGED <<saved, puts, overlapped, conn, frames, carStyles, strayed, missed>>
    BY DEF vars, server
  <2>2. TypeOK'
    BY <2>1 DEF SInv, TypeOK
  <2>3. OneHalfway' /\ Halfway' = Halfway
    BY <2>1 DEF SInv, OneHalfway, Halfway
  <2>4. AllInformed'
    BY <2>1, <2>3 DEF SInv, AllInformed, InReach, Informed, Awaiting
  <2> QED BY <2>2, <2>3, <2>4 DEF SInv
<1>2. SInv /\ [Next]_vars => SInv'
  BY <1>1, PickStep, HearStep, LeaveStep, ConnectStep, RegisterStep, SaveStep, MarshalStep, CastStep, LoseStep DEF Next, Handle
<1> QED BY SInvInit, <1>2, PTL DEF Spec

-----------------------------------------------------------------------------
(* Maps, requests and connections keep their types (main.js:92-157,        *)
(* hub.go:175-243).                                                        *)
THEOREM SharedStylesTypeCorrect == Spec => []TypeOK
<1>1. SInv => TypeOK
  BY DEF SInv
<1> QED BY SInvAlways, <1>1, PTL

(* A connected page at rest knows the server's map, whoever picked what    *)
(* and in whatever order requests and frames came (hub.go:191-193,         *)
(* 229-243; main.js:92-157).                                               *)
THEOREM PagesAgree == Spec => []Agreed
<1>1. SInv => Agreed
  <2> SUFFICES ASSUME SInv, NEW b \in Browsers, AtRest(b) PROVE carStyles[b] = saved
    BY DEF Agreed
  <2>1. Informed(b)
    BY DEF AtRest, SInv, AllInformed, InReach
  <2>2. ~Awaiting(b)
    BY DEF AtRest, Awaiting, Mine
  <2> QED BY <2>1, <2>2 DEF AtRest, Informed
<1> QED BY SInvAlways, <1>1, PTL
===============================================================================
