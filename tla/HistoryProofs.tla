---------------------------- MODULE HistoryProofs ---------------------------
(***************************************************************************)
(* The history keeps its pace, keeps up, reaches back far enough and loses *)
(* no peak, for every sample time, capacity and sequence of packets.       *)
(* Its charts show their window, all of it, and draw the trail once.       *)
(***************************************************************************)
EXTENDS Charts, WellFoundedInduction, TLAPS

(* What a push does to what a ring's reader sees, for every capacity.      *)
(* Below twice the capacity, % takes the capacity off at most once. *)
LEMMA ModuloOnce ==
    ASSUME NEW cap \in Nat \ {0}, NEW x \in Nat, x < 2 * cap
    PROVE  x % cap = IF x < cap THEN x ELSE x - cap
<1>1. CASE x < cap
  BY <1>1
<1>2. CASE x >= cap
  <2>1. x - cap \in Nat /\ x - cap < cap /\ x = cap + (x - cap)
    BY <1>2
  <2> QED
    BY <1>2, <2>1
<1> QED
  BY <1>1, <1>2

(* The same for all such numbers at once. *)
LEMMA ModuloEvery ==
    ASSUME NEW cap \in Nat \ {0}
    PROVE  \A x \in Nat : x < 2 * cap => x % cap = IF x < cap THEN x ELSE x - cap
BY ModuloOnce

(* Where at() looks, and where the next write goes. *)
Place(h, l, c, i) == IF h - l + i >= 0 THEN h - l + i ELSE h - l + i + c
After(h, c) == IF h + 1 < c THEN h + 1 ELSE 0
Slot(r, i) == Place(r.head, r.len, r.cap, i)

(* at()'s index is inside the array. *)
LEMMA PlaceInside ==
    ASSUME NEW c \in Nat \ {0}, NEW h \in Nat, h < c, NEW l \in Nat, l <= c, NEW i \in 0 .. l - 1
    PROVE  Place(h, l, c, i) \in 0 .. c - 1 /\ (h - l + i + c) % c = Place(h, l, c, i)
<1> DEFINE x == h - l + i + c
<1>1. x \in Nat /\ x < 2 * c /\ (h - l + i >= 0 <=> x >= c) /\ x - c = h - l + i
  OBVIOUS
<1>2. x % c = IF x < c THEN x ELSE x - c
  <2> HIDE DEF x
  <2> QED BY <1>1, ModuloEvery
<1>3. Place(h, l, c, i) = IF x >= c THEN x - c ELSE x
  <2>1. Place(h, l, c, i) = IF h - l + i >= 0 THEN h - l + i ELSE x
    BY DEF Place
  <2> HIDE DEF x
  <2> QED BY <1>1, <2>1
<1> HIDE DEF x
<1>4. Place(h, l, c, i) \in 0 .. c - 1 /\ x % c = Place(h, l, c, i)
  BY <1>1, <1>2, <1>3
<1> QED BY <1>4 DEF x

(* The next write is inside the array, too. *)
LEMMA AfterInside ==
    ASSUME NEW c \in Nat \ {0}, NEW h \in Nat, h < c
    PROVE  After(h, c) \in 0 .. c - 1 /\ (h + 1) % c = After(h, c)
<1> DEFINE x == h + 1
<1>1. x \in Nat /\ x < 2 * c /\ x <= c
  OBVIOUS
<1>2. x % c = IF x < c THEN x ELSE x - c
  <2> HIDE DEF x
  <2> QED BY <1>1, ModuloEvery
<1> QED BY <1>1, <1>2 DEF After

(* The newest value is where the last write went; the others stay. *)
LEMMA PlaceOfNewest ==
    ASSUME NEW c \in Nat \ {0}, NEW h \in Nat, h < c, NEW l \in Nat, l > 0, l <= c
    PROVE  Place(After(h, c), l, c, l - 1) = h
<1>1. CASE h + 1 < c
  BY <1>1 DEF Place, After
<1>2. CASE h + 1 = c
  BY <1>2 DEF Place, After
<1> QED BY <1>1, <1>2

(* In a ring that is not full, older values keep their index. *)
LEMMA PlaceStays ==
    ASSUME NEW c \in Nat \ {0}, NEW h \in Nat, h < c, NEW l \in Nat, l < c, NEW i \in 0 .. l - 1
    PROVE  Place(After(h, c), l + 1, c, i) = Place(h, l, c, i) /\ Place(h, l, c, i) # h
<1>1. CASE h + 1 < c
  BY <1>1 DEF Place, After
<1>2. CASE h + 1 = c
  BY <1>2 DEF Place, After
<1> QED BY <1>1, <1>2

(* In a full array the write takes the oldest value's place. *)
LEMMA PlaceMoves ==
    ASSUME NEW c \in Nat \ {0}, NEW h \in Nat, h < c, NEW i \in 0 .. c - 2
    PROVE  Place(After(h, c), c, c, i) = Place(h, c, c, i + 1) /\ Place(h, c, c, i + 1) # h
<1>1. CASE h + 1 < c
  BY <1>1 DEF Place, After
<1>2. CASE h + 1 = c
  BY <1>2 DEF Place, After
<1> QED BY <1>1, <1>2

(* What a ring is made of. *)
LEMMA RingFields ==
    ASSUME NEW cap \in Nat \ {0}, NEW V, NEW r \in Rings(cap, V)
    PROVE  /\ r.buf \in [0 .. cap - 1 -> V] /\ r.cap = cap
           /\ r.head \in Nat /\ r.head < cap /\ r.len \in Nat /\ r.len <= cap
BY DEF Rings

(* at() reads a value that was written. *)
LEMMA AtSlot ==
    ASSUME NEW cap \in Nat \ {0}, NEW V, NEW r \in Rings(cap, V), NEW i \in 0 .. r.len - 1
    PROVE  /\ Slot(r, i) \in 0 .. cap - 1
           /\ At(r, i) = r.buf[Slot(r, i)]
           /\ At(r, i) \in V
<1>0. /\ r.buf \in [0 .. cap - 1 -> V] /\ r.cap = cap
      /\ r.head \in Nat /\ r.head < cap /\ r.len \in Nat /\ r.len <= cap
  BY RingFields
<1>1. Slot(r, i) \in 0 .. cap - 1 /\ (r.head - r.len + i + r.cap) % r.cap = Slot(r, i)
  <2> DEFINE h == r.head
             l == r.len
  <2>1. h \in Nat /\ h < cap /\ l \in Nat /\ l <= cap /\ i \in 0 .. l - 1
    BY <1>0
  <2>2. Place(h, l, cap, i) \in 0 .. cap - 1 /\ (h - l + i + cap) % cap = Place(h, l, cap, i)
    <3> HIDE DEF h, l
    <3> QED BY <2>1, PlaceInside
  <2> QED BY <1>0, <2>2 DEF Slot
<1>2. At(r, i) = r.buf[Slot(r, i)]
  BY <1>1 DEF At
<1> QED
  BY <1>0, <1>1, <1>2

(* A push that finds room keeps what was there and adds a newest value.    *)
(* One that finds none drops the oldest and moves the others down.         *)
LEMMA PushShifts ==
    ASSUME NEW cap \in Nat \ {0}, NEW V, NEW r \in Rings(cap, V), NEW v \in V,
           NEW q, q = Push(r, v)
    PROVE  /\ q \in Rings(cap, V)
           /\ q.len \in Nat /\ q.len > 0 /\ At(q, q.len - 1) = v /\ Newest(q) = v
           /\ r.len < cap => /\ q.len = r.len + 1
                             /\ \A i \in 0 .. r.len - 1 : At(q, i) = At(r, i)
           /\ r.len = cap => /\ q.len = cap
                             /\ \A i \in 0 .. cap - 2 : At(q, i) = At(r, i + 1)
<1>0. /\ r.buf \in [0 .. cap - 1 -> V] /\ r.cap = cap
      /\ r.head \in Nat /\ r.head < cap /\ r.len \in Nat /\ r.len <= cap
  BY RingFields
<1>1. /\ q.buf = [r.buf EXCEPT ![r.head] = v] /\ q.cap = cap
      /\ q.head = (r.head + 1) % cap
      /\ q.len = IF r.len < cap THEN r.len + 1 ELSE r.len
  BY <1>0 DEF Push
<1>2. q.head = After(r.head, cap) /\ q.head \in 0 .. cap - 1
  <2>1. After(r.head, cap) \in 0 .. cap - 1 /\ (r.head + 1) % cap = After(r.head, cap)
    BY <1>0, AfterInside
  <2> QED BY <1>1, <2>1
<1>4. q.len \in Nat /\ q.len > 0 /\ q.len <= cap
  BY <1>0, <1>1
<1>3. q \in Rings(cap, V)
  <2>1. q.buf \in [0 .. cap - 1 -> V]
    BY <1>0, <1>1
  <2>2. q.len \in 0 .. cap
    BY <1>4
  <2>3. q = [buf |-> q.buf, cap |-> q.cap, head |-> q.head, len |-> q.len]
    BY DEF Push
  <2> QED
    BY <1>1, <1>2, <2>1, <2>2, <2>3 DEF Rings
<1>8. \A k \in 0 .. cap - 1 : q.buf[k] = IF k = r.head THEN v ELSE r.buf[k]
  BY <1>0, <1>1
<1>5. At(q, q.len - 1) = v
  <2>1. Slot(q, q.len - 1) = r.head
    BY <1>0, <1>1, <1>2, <1>4, PlaceOfNewest DEF Slot
  <2>2. q.len - 1 \in 0 .. q.len - 1
    BY <1>4
  <2>3. At(q, q.len - 1) = q.buf[r.head] /\ r.head \in 0 .. cap - 1
    BY <1>3, <2>1, <2>2, AtSlot
  <2> QED
    BY <1>8, <2>3
<1>6. ASSUME r.len < cap, NEW i \in 0 .. r.len - 1 PROVE At(q, i) = At(r, i)
  <2>1. q.len = r.len + 1 /\ i \in 0 .. q.len - 1
    BY <1>0, <1>1, <1>6
  <2>2. Slot(q, i) = Slot(r, i) /\ Slot(r, i) # r.head
    <3>1. /\ Place(After(r.head, cap), r.len + 1, cap, i) = Place(r.head, r.len, cap, i)
          /\ Place(r.head, r.len, cap, i) # r.head
      BY <1>0, <1>6, PlaceStays
    <3>2. Slot(q, i) = Place(After(r.head, cap), r.len + 1, cap, i)
      BY <1>1, <1>2, <2>1 DEF Slot
    <3>3. Slot(r, i) = Place(r.head, r.len, cap, i)
      BY <1>0 DEF Slot
    <3> QED BY <3>1, <3>2, <3>3
  <2>3. At(q, i) = q.buf[Slot(q, i)] /\ At(r, i) = r.buf[Slot(r, i)] /\ Slot(r, i) \in 0 .. cap - 1
    BY <1>3, <1>6, <2>1, AtSlot
  <2> QED
    BY <1>8, <2>2, <2>3
<1>7. ASSUME r.len = cap, NEW i \in 0 .. cap - 2 PROVE At(q, i) = At(r, i + 1)
  <2>1. q.len = cap /\ i \in 0 .. q.len - 1 /\ i + 1 \in 0 .. r.len - 1
    BY <1>0, <1>1, <1>7
  <2>2. Slot(q, i) = Slot(r, i + 1) /\ Slot(r, i + 1) # r.head
    <3>1. /\ Place(After(r.head, cap), cap, cap, i) = Place(r.head, cap, cap, i + 1)
          /\ Place(r.head, cap, cap, i + 1) # r.head
      BY <1>0, PlaceMoves
    <3>2. Slot(q, i) = Place(After(r.head, cap), cap, cap, i)
      BY <1>1, <1>2, <2>1 DEF Slot
    <3>3. Slot(r, i + 1) = Place(r.head, cap, cap, i + 1)
      BY <1>0, <1>7 DEF Slot
    <3> QED BY <3>1, <3>2, <3>3
  <2>3. At(q, i) = q.buf[Slot(q, i)] /\ At(r, i + 1) = r.buf[Slot(r, i + 1)] /\ Slot(r, i + 1) \in 0 .. cap - 1
    BY <1>3, <2>1, AtSlot
  <2> QED
    BY <1>8, <2>2, <2>3
<1>9. Newest(q) = v
  BY <1>4, <1>5 DEF Newest
<1> QED
  BY <1>0, <1>1, <1>3, <1>4, <1>5, <1>6, <1>7, <1>9

(* How many values a push drops. *)
Dropped(r) == IF r.len < r.cap THEN 0 ELSE 1

(* PushShifts in one formula: a value moves down by what was dropped.      *)
LEMMA PushMovesDown ==
    ASSUME NEW cap \in Nat \ {0}, NEW V, NEW r \in Rings(cap, V), NEW v \in V,
           NEW q, q = Push(r, v)
    PROVE  /\ Dropped(r) \in {0, 1}
           /\ q.len = r.len + 1 - Dropped(r)
           /\ \A i \in 0 .. q.len - 2 : /\ i + Dropped(r) \in 0 .. r.len - 1
                                       /\ At(q, i) = At(r, i + Dropped(r))
<1>0. r.cap = cap /\ r.len \in Nat /\ r.len <= cap
  BY RingFields
<1>1. CASE r.len < cap
  <2>1. q.len = r.len + 1 /\ \A i \in 0 .. r.len - 1 : At(q, i) = At(r, i)
    BY <1>1, PushShifts
  <2> QED
    BY <1>0, <1>1, <2>1 DEF Dropped
<1>2. CASE r.len = cap
  <2>1. q.len = cap /\ \A i \in 0 .. cap - 2 : At(q, i) = At(r, i + 1)
    BY <1>2, PushShifts
  <2> QED
    BY <1>0, <1>2, <2>1 DEF Dropped
<1> QED
  BY <1>0, <1>1, <1>2

(* A new ring is an empty ring. *)
LEMMA NewRingType ==
    ASSUME NEW cap \in Nat \ {0}, NEW V, 0 \in V
    PROVE  NewRing(cap) \in Rings(cap, V) /\ NewRing(cap).len = 0
BY DEF NewRing, Rings

-----------------------------------------------------------------------------

(* The constants' types, one by one.                                       *)
LEMMA SampleNumbers ==
    /\ Half \in Nat /\ Half > 0 /\ SampleTime \in Nat /\ SampleTime = 2 * Half
    /\ TrailTime \in Nat /\ TrailTime > 0 /\ HistoryTime \in Nat /\ HistoryTime > 0 /\ Horizon \in Nat
    /\ LongAgo \in Int /\ LongAgo < 0 /\ LongAgo + SampleTime <= 0 /\ LongAgo + TrailTime <= 0
BY Times DEF SampleTime, LongAgo

(* Rounding up, and a headroom of two, leaves a sample more than is asked *)
(* for. *)
LEMMA Ceiling ==
    ASSUME NEW a \in Nat, a > 0, NEW b \in Nat, b > 0, NEW h \in Nat, h >= 2
    PROVE  LET n == (a + b - 1) \div b + h
           IN  n \in Nat /\ n > 0 /\ (n - 1) * b >= a + b
<1> DEFINE q == (a + b - 1) \div b
<1>1. q \in Nat /\ q * b > a - 1
  OBVIOUS
<1>2. q * b >= a
  <2> HIDE DEF q
  <2>1. q * b \in Nat
    BY <1>1
  <2> QED BY <1>1, <2>1
<1>3. (q + h - 1) * b >= q * b + b
  <2> HIDE DEF q
  <2>1. \E k \in Nat : h = k + 2
    BY h - 2 \in Nat
  <2>2. PICK k \in Nat : h = k + 2
    BY <2>1
  <2>3. (q + h - 1) * b = q * b + b + k * b /\ k * b \in Nat /\ q * b \in Nat
    BY <1>1, <2>2
  <2> QED BY <2>3
<1> HIDE DEF q
<1>4. (q + h - 1) * b >= a + b
  <2>1. q * b \in Nat /\ (q + h - 1) * b \in Int
    BY <1>1
  <2> QED BY <1>2, <1>3, <2>1
<1> QED BY <1>1, <1>4 DEF q

(* SAMPLES of them, at 60 Hz, reach back over HISTORY_MS. *)
LEMMA SamplesReach ==
    Samples \in Nat \ {0} /\ (Samples - 1) * SampleTime - Half >= HistoryTime
<1> DEFINE n == (HistoryTime + SampleTime - 1) \div SampleTime + Headroom
<1>1. n \in Nat /\ n > 0 /\ (n - 1) * SampleTime >= HistoryTime + SampleTime
  BY SampleNumbers, Sizes, Ceiling
<1>2. Samples = n
  BY DEF Samples
<1> HIDE DEF n
<1>3. (n - 1) * SampleTime \in Int
  BY <1>1, SampleNumbers
<1>4. n \in Nat \ {0} /\ (n - 1) * SampleTime - Half >= HistoryTime
  BY <1>1, <1>3, SampleNumbers
<1> QED BY <1>2, <1>4

-----------------------------------------------------------------------------
(* Due is later than now, by half a sample time at least, and at the end   *)
(* of the ring's cadence; every packet up to it has been shown or held.    *)
Cadence ==
    \A i \in 0 .. time.len - 1 : nextSampleAt >= At(time, i) + (time.len - i) * SampleTime - Half

Current ==
    IF lastPacketAt = LongAgo
    THEN time.len = 0 /\ nextSampleAt = LongAgo
    ELSE time.len > 0 /\ lastPacketAt < nextSampleAt /\ nextSampleAt <= Newest(time) + SampleTime

InStep == time.len = slip.len

Holding ==
    /\ \A v \in unshown : v <= slipHold
    /\ slipHold \in unshown \/ slipHold = 0

Marked == trail.len > 0 => Newest(trail) = lastTrailAt

HInv == TypeOK /\ InStep /\ Cadence /\ Paced /\ Current /\ Holding /\ TrailSpaced /\ Marked

(* No packet has come: the rings are empty. *)
LEMMA HInvInit == Init => HInv
<1> SUFFICES ASSUME Init PROVE HInv
  OBVIOUS
<1> USE SampleNumbers, SamplesReach, Sizes
<1>1. /\ time \in Rings(Samples, Clock) /\ time.len = 0
      /\ slip \in Rings(Samples, Nat) /\ slip.len = 0
      /\ trail \in Rings(TrailCap, Clock) /\ trail.len = 0
  <2>1. 0 \in Clock /\ 0 \in Nat
    BY DEF Clock
  <2> QED
    BY <2>1, NewRingType DEF Init
<1>2. TypeOK
  BY <1>1 DEF Init, TypeOK, Clock
<1>3. InStep /\ Cadence /\ Paced /\ Current /\ Holding /\ TrailSpaced /\ Marked
  BY <1>1 DEF Init, InStep, Cadence, Paced, Current, Holding, TrailSpaced, Marked
<1> QED
  BY <1>2, <1>3 DEF HInv

(* The hold is the highest of the slips that no sample shows, the new one *)
(* among them. *)
LEMMA HoldsPeak ==
    ASSUME HInv, NEW v \in Slips
    PROVE  /\ Held(v) \in Nat /\ Held(v) \in unshown \cup {v}
           /\ \A u \in unshown \cup {v} : u <= Held(v)
BY SlipsAreNumbers DEF HInv, TypeOK, Holding, Held

(* A sample keeps the cadence.                                             *)
LEMMA SampleKeepsPace ==
    ASSUME HInv, NEW v \in Slips, now >= nextSampleAt, Sample(Held(v)),
           lastPacketAt' = now, now' = now
    PROVE  /\ time' \in Rings(Samples, Clock) /\ slip' \in Rings(Samples, Nat)
           /\ slipHold' \in Nat /\ nextSampleAt' \in Int /\ unshown' \subseteq Slips
           /\ InStep' /\ Cadence' /\ Paced' /\ Current' /\ Holding'
<1> USE SampleNumbers, SamplesReach
<1> DEFINE d == Dropped(time)
<1>1. /\ now \in Clock /\ now \in Nat /\ nextSampleAt \in Int
      /\ time \in Rings(Samples, Clock) /\ slip \in Rings(Samples, Nat)
      /\ time.len \in Nat /\ time.len = slip.len
  <2>1. now \in Clock /\ nextSampleAt \in Int /\ time \in Rings(Samples, Clock) /\ slip \in Rings(Samples, Nat)
    BY DEF HInv, TypeOK
  <2>2. now \in Nat
    BY <2>1 DEF Clock
  <2> QED
    BY <2>1, <2>2, RingFields DEF HInv, InStep
<1>2. time' = Push(time, now) /\ slip' = Push(slip, Held(v)) /\ nextSampleAt' = Due
  BY DEF Sample
<1>3. /\ time' \in Rings(Samples, Clock) /\ slip' \in Rings(Samples, Nat)
      /\ time'.len \in Nat /\ time'.len > 0 /\ At(time', time'.len - 1) = now /\ Newest(time') = now
      /\ d \in {0, 1} /\ time'.len = time.len + 1 - d
      /\ \A i \in 0 .. time'.len - 2 : i + d \in 0 .. time.len - 1 /\ At(time', i) = At(time, i + d)
  <2>1. Held(v) \in Nat
    BY HoldsPeak
  <2>2. time' \in Rings(Samples, Clock) /\ slip' \in Rings(Samples, Nat)
    BY <1>1, <1>2, <2>1, PushShifts
  <2>3. time'.len \in Nat /\ time'.len > 0 /\ At(time', time'.len - 1) = now /\ Newest(time') = now
    BY <1>1, <1>2, PushShifts
  <2>4. /\ d \in {0, 1} /\ time'.len = time.len + 1 - d
        /\ \A i \in 0 .. time'.len - 2 : i + d \in 0 .. time.len - 1 /\ At(time', i) = At(time, i + d)
    BY <1>1, <1>2, PushMovesDown
  <2> QED BY <2>2, <2>3, <2>4
<1>4. slip'.len = time'.len
  <2>1. slip'.len = slip.len + 1 - Dropped(slip) /\ Dropped(slip) = Dropped(time)
    <3>1. slip.cap = time.cap
      BY <1>1, RingFields
    <3> QED
      BY <1>1, <1>2, <3>1, HoldsPeak, PushMovesDown DEF Dropped
  <2> QED
    BY <1>1, <1>3, <2>1
<1>5. /\ nextSampleAt' \in Int /\ nextSampleAt' >= nextSampleAt + SampleTime
      /\ nextSampleAt' >= now + Half /\ nextSampleAt' <= now + SampleTime
  BY <1>1, <1>2 DEF Due
<1> HIDE DEF d
<1>6. \A i \in 0 .. time.len - 1 : /\ At(time, i) \in Nat /\ (time.len - i) * SampleTime \in Int
                                 /\ nextSampleAt >= At(time, i) + (time.len - i) * SampleTime - Half
  <2> SUFFICES ASSUME NEW i \in 0 .. time.len - 1
               PROVE  /\ At(time, i) \in Nat /\ (time.len - i) * SampleTime \in Int
                      /\ nextSampleAt >= At(time, i) + (time.len - i) * SampleTime - Half
    OBVIOUS
  <2>1. At(time, i) \in Clock
    BY <1>1, AtSlot
  <2> QED
    <3>1. At(time, i) \in Nat
      BY <2>1 DEF Clock
    <3>2. time.len - i \in Int
      BY <1>1
    <3>3. (time.len - i) * SampleTime \in Int
      BY <3>2
    <3> QED
      BY <3>1, <3>3 DEF HInv, Cadence
<1>7. Cadence'
  <2> SUFFICES ASSUME NEW i \in 0 .. time'.len - 1
               PROVE  nextSampleAt' >= At(time', i) + (time'.len - i) * SampleTime - Half
    BY DEF Cadence
  <2>1. CASE i = time'.len - 1
    <3>1. (time'.len - i) * SampleTime = SampleTime
      BY <1>3, <2>1
    <3> QED
      BY <1>1, <1>3, <1>5, <2>1, <3>1
  <2>2. CASE i \in 0 .. time'.len - 2
    <3>1. i + d \in 0 .. time.len - 1 /\ At(time', i) = At(time, i + d)
      BY <1>3, <2>2
    <3>2. (time'.len - i) * SampleTime = (time.len - (i + d)) * SampleTime + SampleTime
      <4>1. time'.len - i = (time.len - (i + d)) + 1 /\ time.len - (i + d) \in Int
        BY <1>1, <1>3, <2>2
      <4>2. \A n \in Int : (n + 1) * SampleTime = n * SampleTime + SampleTime
        OBVIOUS
      <4> QED
        BY <4>1, <4>2
    <3> QED
      BY <1>1, <1>5, <1>6, <3>1, <3>2
  <2> QED
    BY <1>3, <2>1, <2>2
<1>8. Paced'
  <2> SUFFICES ASSUME NEW i \in 0 .. time'.len - 1, NEW j \in 0 .. time'.len - 1, i < j
               PROVE  At(time', j) - At(time', i) >= (j - i) * SampleTime - Half
    BY DEF Paced
  <2>1. i + d \in 0 .. time.len - 1 /\ At(time', i) = At(time, i + d)
    BY <1>3
  <2>2. CASE j = time'.len - 1
    <3>1. time.len - (i + d) = j - i
      BY <1>1, <1>3, <2>2
    <3>2. nextSampleAt >= At(time, i + d) + (j - i) * SampleTime - Half
      BY <1>6, <2>1, <3>1
    <3>3. At(time, i + d) \in Nat /\ (j - i) * SampleTime \in Int
      BY <1>6, <2>1
    <3> QED
      BY <1>1, <1>3, <2>1, <2>2, <3>2, <3>3
  <2>3. CASE j \in 0 .. time'.len - 2
    <3>1. j + d \in 0 .. time.len - 1 /\ At(time', j) = At(time, j + d) /\ (j + d) - (i + d) = j - i /\ i + d < j + d
      BY <1>3, <2>3
    <3>2. At(time, j + d) - At(time, i + d) >= ((j + d) - (i + d)) * SampleTime - Half
      BY <2>1, <3>1 DEF HInv, Paced
    <3> QED
      BY <2>1, <3>1, <3>2
  <2> QED
    BY <1>3, <2>2, <2>3
<1>9. Current'
  <2>1. now # LongAgo /\ LongAgo' = LongAgo
    BY <1>1 DEF LongAgo, SampleTime
  <2> QED
    BY <1>1, <1>3, <1>5, <2>1 DEF Current
<1>10. InStep' /\ Holding' /\ slipHold' \in Nat /\ unshown' \subseteq Slips
  BY <1>4 DEF InStep, Holding, Sample
<1> QED
  BY <1>3, <1>5, <1>7, <1>8, <1>9, <1>10

(* A skipped packet is held.                                               *)
LEMMA SkipHolds ==
    ASSUME HInv, NEW v \in Slips, ~(now >= nextSampleAt), Skip(v),
           lastPacketAt' = now, now' = now
    PROVE  /\ slipHold' \in Nat /\ unshown' \subseteq Slips
           /\ InStep' /\ Cadence' /\ Paced' /\ Current' /\ Holding'
<1>1. Held(v) \in Nat /\ Held(v) \in unshown \cup {v} /\ \A u \in unshown \cup {v} : u <= Held(v)
  BY HoldsPeak
<1>2. slipHold' \in Nat /\ unshown' \subseteq Slips /\ Holding'
  BY <1>1 DEF HInv, TypeOK, Holding, Skip
<1>3. InStep' /\ Cadence' /\ Paced'
  BY DEF HInv, InStep, Cadence, Paced, Skip
<1>4. Current'
  <2>1. now \in Nat /\ nextSampleAt \in Int
    BY SampleNumbers DEF HInv, TypeOK, Clock
  <2>2. lastPacketAt # LongAgo
    BY <2>1, SampleNumbers DEF HInv, Current
  <2> QED
    BY <2>1, <2>2, SampleNumbers DEF HInv, Current, Skip
<1> QED
  BY <1>2, <1>3, <1>4

(* The trail is marked no sooner than TRAIL_INTERVAL_MS after the last.    *)
LEMMA MarkKeepsDistance ==
    ASSUME HInv, NEW hasDash \in BOOLEAN, Mark(hasDash), now' = now
    PROVE  /\ trail' \in Rings(TrailCap, Clock) /\ lastTrailAt' \in Clock \cup {LongAgo}
           /\ TrailSpaced' /\ Marked'
<1> USE SampleNumbers, Sizes
<1>1. /\ now \in Clock /\ now \in Nat /\ lastTrailAt \in Int
      /\ trail \in Rings(TrailCap, Clock) /\ trail.len \in Nat
  <2>1. now \in Clock /\ lastTrailAt \in Clock \cup {LongAgo} /\ trail \in Rings(TrailCap, Clock)
    BY DEF HInv, TypeOK
  <2>2. now \in Nat /\ lastTrailAt \in Int
    BY <2>1 DEF Clock
  <2> QED
    BY <2>1, <2>2, RingFields
<1>2. CASE hasDash /\ now - lastTrailAt >= TrailTime
  <2>1. trail' = Push(trail, now) /\ lastTrailAt' = now
    BY <1>2 DEF Mark
  <2> DEFINE d == Dropped(trail)
  <2>2. /\ trail' \in Rings(TrailCap, Clock)
        /\ trail'.len \in Nat /\ trail'.len > 0 /\ At(trail', trail'.len - 1) = now /\ Newest(trail') = now
        /\ d \in {0, 1} /\ trail'.len = trail.len + 1 - d
        /\ \A i \in 0 .. trail'.len - 2 : i + d \in 0 .. trail.len - 1 /\ At(trail', i) = At(trail, i + d)
    BY <1>1, <2>1, PushShifts, PushMovesDown
  <2> HIDE DEF d
  <2>3. TrailSpaced'
    <3> SUFFICES ASSUME NEW i \in 0 .. trail'.len - 2
                 PROVE  At(trail', i + 1) - At(trail', i) >= TrailTime
      BY DEF TrailSpaced
    <3>1. i + d \in 0 .. trail.len - 1 /\ At(trail', i) = At(trail, i + d)
      BY <2>2
    <3>2. CASE i = trail'.len - 2
      <4>1. i + d = trail.len - 1 /\ i + 1 = trail'.len - 1 /\ trail.len > 0
        BY <1>1, <2>2, <3>1, <3>2
      <4>2. At(trail, i + d) = lastTrailAt
        BY <4>1 DEF HInv, Marked, Newest
      <4> QED
        BY <1>1, <1>2, <2>2, <3>1, <4>1, <4>2
    <3>3. CASE i \in 0 .. trail'.len - 3
      <4>1. i + 1 \in 0 .. trail'.len - 2 /\ (i + 1) + d = (i + d) + 1 /\ i + d \in 0 .. trail.len - 2
        BY <1>1, <2>2, <3>1, <3>3
      <4>2. At(trail', i + 1) = At(trail, (i + d) + 1)
        BY <2>2, <4>1
      <4>3. At(trail, (i + d) + 1) - At(trail, i + d) >= TrailTime
        BY <4>1 DEF HInv, TrailSpaced
      <4> QED
        BY <3>1, <4>2, <4>3
    <3> QED
      BY <2>2, <3>2, <3>3
  <2> QED
    BY <1>1, <2>1, <2>2, <2>3 DEF Marked
<1>3. CASE ~(hasDash /\ now - lastTrailAt >= TrailTime)
  BY <1>3 DEF HInv, TypeOK, Mark, TrailSpaced, Marked
<1> QED
  BY <1>2, <1>3

(* Every step keeps the invariant. *)
LEMMA HInvStep == HInv /\ [Next]_vars => HInv'
<1> SUFFICES ASSUME HInv, [Next]_vars PROVE HInv'
  OBVIOUS
<1>1. ASSUME NEW v \in Slips, NEW hasDash \in BOOLEAN, Packet(v, hasDash) PROVE HInv'
  <2>1. /\ trail' \in Rings(TrailCap, Clock) /\ lastTrailAt' \in Clock \cup {LongAgo}
        /\ TrailSpaced' /\ Marked'
    BY <1>1, MarkKeepsDistance DEF Packet
  <2>2. CASE now >= nextSampleAt
    <3>1. /\ time' \in Rings(Samples, Clock) /\ slip' \in Rings(Samples, Nat)
          /\ slipHold' \in Nat /\ nextSampleAt' \in Int /\ unshown' \subseteq Slips
          /\ InStep' /\ Cadence' /\ Paced' /\ Current' /\ Holding'
      BY <1>1, <2>2, SampleKeepsPace DEF Packet
    <3> QED
      BY <1>1, <2>1, <3>1 DEF HInv, TypeOK, Packet
  <2>3. CASE ~(now >= nextSampleAt)
    <3>1. /\ slipHold' \in Nat /\ unshown' \subseteq Slips
          /\ InStep' /\ Cadence' /\ Paced' /\ Current' /\ Holding'
      BY <1>1, <2>3, SkipHolds DEF Packet
    <3>2. UNCHANGED <<time, slip, nextSampleAt, now>> /\ lastPacketAt' = now
      BY <1>1, <2>3 DEF Packet, Skip
    <3> QED
      BY <2>1, <3>1, <3>2 DEF HInv, TypeOK
  <2> QED
    BY <2>2, <2>3
<1>2. CASE Tick
  <2>1. now' \in Clock
    BY <1>2, SampleNumbers DEF HInv, TypeOK, Tick, Clock
  <2> QED
    BY <1>2, <2>1 DEF HInv, TypeOK, InStep, Cadence, Paced, Current, Holding, TrailSpaced, Marked, Tick
<1>3. CASE UNCHANGED vars
  BY <1>3 DEF HInv, TypeOK, InStep, Cadence, Paced, Current, Holding, TrailSpaced, Marked, vars
<1> QED
  BY <1>1, <1>2, <1>3 DEF Next

(* So it holds throughout. *)
LEMMA HInvAlways == Spec => []HInv
BY HInvInit, HInvStep, PTL DEF Spec

(* Every ring, time stamp and peak has its type (history.js:10-65).        *)
THEOREM HistoryTypeCorrect == Spec => []TypeOK
<1>1. HInv => TypeOK
  BY DEF HInv
<1> QED
  BY <1>1, HInvAlways, PTL

(* At most 60 samples a second over every stretch of the ring              *)
(* (history.js:5, 73-76).                                                  *)
THEOREM HistoryIsPaced == Spec => []Paced
<1>1. HInv => Paced
  BY DEF HInv
<1> QED
  BY <1>1, HInvAlways, PTL

(* The newest sample is less than a sample time older than the newest      *)
(* packet (history.js:73-76).                                              *)
THEOREM HistoryKeepsUp == Spec => []KeepsUp
<1>1. HInv => KeepsUp
  <2> SUFFICES ASSUME HInv, lastPacketAt # LongAgo
               PROVE  time.len > 0 /\ lastPacketAt - Newest(time) < SampleTime
    BY DEF KeepsUp
  <2>1. time.len > 0 /\ lastPacketAt < nextSampleAt /\ nextSampleAt <= Newest(time) + SampleTime
    BY DEF HInv, Current
  <2>2. time \in Rings(Samples, Clock) /\ time.len - 1 \in 0 .. time.len - 1
    <3>1. time \in Rings(Samples, Clock)
      BY DEF HInv, TypeOK
    <3>2. time.len \in Nat
      BY <3>1, SamplesReach, RingFields
    <3> QED BY <2>1, <3>1, <3>2
  <2>3. Newest(time) \in Clock
    BY <2>1, <2>2, SamplesReach, AtSlot DEF Newest
  <2>4. Newest(time) \in Int /\ lastPacketAt \in Int /\ nextSampleAt \in Int
    BY <2>3, SampleNumbers DEF HInv, TypeOK, Clock
  <2> QED
    BY <2>1, <2>4, SampleNumbers
<1> QED
  BY <1>1, HInvAlways, PTL

(* A full ring covers HISTORY_MS, whatever rate the packets came at        *)
(* (history.js:39-41).                                                     *)
THEOREM HistoryReaches == Spec => []Reaches
<1>1. HInv => Reaches
  <2> SUFFICES ASSUME HInv, time.len = Samples
               PROVE  Newest(time) - At(time, 0) >= HistoryTime
    BY DEF Reaches
  <2>1. Samples \in Nat /\ Samples > 0 /\ (Samples - 1) * SampleTime - Half >= HistoryTime
    BY SamplesReach
  <2>2. Newest(time) = At(time, Samples - 1)
    BY <2>1 DEF Newest
  <2>3. CASE Samples = 1
    <3>1. (Samples - 1) * SampleTime = 0
      BY <2>3, SampleNumbers
    <3> QED
      BY <2>1, <3>1, SampleNumbers
  <2>4. CASE Samples > 1
    <3>1. At(time, Samples - 1) - At(time, 0) >= (Samples - 1 - 0) * SampleTime - Half
      BY <2>1, <2>4 DEF HInv, Paced
    <3>2. At(time, Samples - 1) \in Int /\ At(time, 0) \in Int
      <4>1. At(time, Samples - 1) \in Clock /\ At(time, 0) \in Clock
        BY <2>1, AtSlot DEF HInv, TypeOK
      <4> QED
        BY <4>1 DEF Clock
    <3>3. (Samples - 1) * SampleTime \in Int /\ Samples - 1 - 0 = Samples - 1
      BY <2>1, SampleNumbers
    <3> QED
      BY <2>1, <2>2, <3>1, <3>2, <3>3, SampleNumbers
  <2> QED
    BY <2>1, <2>3, <2>4
<1> QED
  BY <1>1, HInvAlways, PTL

(* Two marks of the trail are never closer than TRAIL_INTERVAL_MS          *)
(* (history.js:91-95).                                                     *)
THEOREM TrailIsSpaced == Spec => []TrailSpaced
<1>1. HInv => TrailSpaced
  BY DEF HInv
<1> QED
  BY <1>1, HInvAlways, PTL

-----------------------------------------------------------------------------
(* How many samples are left of s when one more has come. *)
Leaves(s, n) == Len(s) <= Samples /\ n \in Nat /\ n = Len(s) + 1 - (IF Len(s) < Samples THEN 0 ELSE 1)

(* LastOf drops from the front what Depth has no room for.                 *)
LEMMA LastOfAppended ==
    ASSUME NEW T, NEW s \in Seq(T), NEW x \in T, NEW n, Leaves(s, n)
    PROVE  S!LastOf(Append(s, x)) =
           [i \in 1 .. n |-> IF i < n THEN s[i + Len(s) + 1 - n] ELSE x]
<1> USE SamplesReach DEF Leaves
<1> DEFINE a == Append(s, x)
<1>1. a \in Seq(T) /\ Len(a) = Len(s) + 1 /\ Len(s) \in Nat
      /\ \A i \in 1 .. Len(s) : a[i] = s[i]
  OBVIOUS
<1>2. a[Len(s) + 1] = x
  OBVIOUS
<1> HIDE DEF a
<1>3. S!LastOf(a) = SubSeq(a, Len(s) + 2 - n, Len(s) + 1)
  <2>1. (IF Len(a) > Samples THEN Len(a) - Samples + 1 ELSE 1) = Len(s) + 2 - n /\ Len(a) = Len(s) + 1
    BY <1>1
  <2>2. S!LastOf(a) = SubSeq(a, IF Len(a) > Samples THEN Len(a) - Samples + 1 ELSE 1, Len(a))
    BY DEF S!LastOf
  <2> QED
    BY <2>1, <2>2
<1>4. SubSeq(a, Len(s) + 2 - n, Len(s) + 1) = [i \in 1 .. n |-> a[i + (Len(s) + 2 - n) - 1]]
  <2>1. Len(s) + 2 - n \in 1 .. Len(a) /\ Len(s) + 1 - (Len(s) + 2 - n) + 1 = n
    BY <1>1
  <2> QED
    BY <1>1, <2>1
<1>5. \A i \in 1 .. n : a[i + (Len(s) + 2 - n) - 1] = IF i < n THEN s[i + Len(s) + 1 - n] ELSE x
  <2> SUFFICES ASSUME NEW i \in 1 .. n
               PROVE  a[i + (Len(s) + 2 - n) - 1] = IF i < n THEN s[i + Len(s) + 1 - n] ELSE x
    OBVIOUS
  <2>1. i + (Len(s) + 2 - n) - 1 = i + Len(s) + 1 - n
    BY <1>1
  <2>2. CASE i < n
    <3>1. i + Len(s) + 1 - n \in 1 .. Len(s)
      BY <1>1, <2>2
    <3> QED
      BY <1>1, <2>1, <2>2, <3>1
  <2>3. CASE i = n
    <3>1. i + Len(s) + 1 - n = Len(s) + 1
      BY <1>1, <2>3
    <3> QED
      BY <1>2, <2>1, <2>3, <3>1
  <2> QED
    BY <2>2, <2>3
<1> QED
  BY <1>3, <1>4, <1>5 DEF a

(* The held peak is the greatest slip not shown yet.                       *)
LEMMA HeldIsMax ==
    ASSUME HInv, NEW v \in Slips
    PROVE  S!Max(unshown \cup {v}) = Held(v)
<1> DEFINE T == unshown \cup {v}
<1>1. /\ Held(v) \in T /\ \A u \in T : u <= Held(v)
      /\ T \subseteq Nat
  BY HoldsPeak, SlipsAreNumbers DEF HInv, TypeOK
<1> HIDE DEF T
<1>2. \A m \in T : (\A y \in T : m >= y) => m = Held(v)
  <2> SUFFICES ASSUME NEW m \in T, \A y \in T : m >= y PROVE m = Held(v)
    OBVIOUS
  <2>1. m >= Held(v) /\ m <= Held(v) /\ m \in Nat /\ Held(v) \in Nat
    BY <1>1
  <2> QED
    BY <2>1
<1>3. \A y \in T : Held(v) >= y
  BY <1>1
<1>4. S!Max(T) = Held(v)
  BY <1>1, <1>2, <1>3 DEF S!Max
<1> QED
  BY <1>4 DEF T

(* A sample of the ring is a sample of the window.                         *)
LEMMA SampleIsTaken ==
    ASSUME HInv, NEW v \in Slips, now >= nextSampleAt, Sample(Held(v))
    PROVE  S!Take(v, now)
<1> USE SamplesReach
<1>1. /\ now \in Clock /\ Held(v) \in Nat
      /\ time \in Rings(Samples, Clock) /\ slip \in Rings(Samples, Nat)
  BY HoldsPeak DEF HInv, TypeOK
<1>2. /\ time.len \in Nat /\ time.len <= Samples /\ slip.len = time.len
      /\ time.cap = Samples /\ slip.cap = Samples
  BY <1>1, RingFields DEF HInv, InStep
<1>3. time' = Push(time, now) /\ slip' = Push(slip, Held(v)) /\ unshown' = {}
  BY DEF Sample
<1> DEFINE d == IF time.len < Samples THEN 0 ELSE 1
           n == time.len + 1 - d
           x == [at |-> now, peak |-> Held(v)]
           T == [at : Clock, peak : Nat]
<1>4. Dropped(time) = d /\ Dropped(slip) = d
  BY <1>2 DEF Dropped
<1>5. /\ time'.len = n /\ n \in Nat /\ n > 0 /\ At(time', n - 1) = now
      /\ \A i \in 0 .. n - 2 : i + d \in 0 .. time.len - 1 /\ At(time', i) = At(time, i + d)
  <2>1. /\ time'.len = time.len + 1 - Dropped(time)
        /\ \A i \in 0 .. time'.len - 2 : i + Dropped(time) \in 0 .. time.len - 1 /\ At(time', i) = At(time, i + Dropped(time))
    BY <1>1, <1>3, PushMovesDown
  <2>2. time'.len \in Nat /\ time'.len > 0 /\ At(time', time'.len - 1) = now
    BY <1>1, <1>3, PushShifts
  <2> QED
    BY <1>2, <1>4, <2>1, <2>2
<1>6. /\ slip'.len = n /\ At(slip', n - 1) = Held(v)
      /\ \A i \in 0 .. n - 2 : At(slip', i) = At(slip, i + d)
  <2>1. /\ slip'.len = slip.len + 1 - Dropped(slip)
        /\ \A i \in 0 .. slip'.len - 2 : At(slip', i) = At(slip, i + Dropped(slip))
    BY <1>1, <1>3, PushMovesDown
  <2>2. slip'.len \in Nat /\ slip'.len > 0 /\ At(slip', slip'.len - 1) = Held(v)
    BY <1>1, <1>3, PushShifts
  <2> QED
    BY <1>2, <1>4, <2>1, <2>2
<1>7. Shown \in Seq(T) /\ Len(Shown) = time.len /\ x \in T
  <2>1. \A i \in 1 .. time.len : At(time, i - 1) \in Clock /\ At(slip, i - 1) \in Nat
    <3> SUFFICES ASSUME NEW i \in 1 .. time.len PROVE At(time, i - 1) \in Clock /\ At(slip, i - 1) \in Nat
      OBVIOUS
    <3>1. i - 1 \in 0 .. time.len - 1 /\ i - 1 \in 0 .. slip.len - 1
      BY <1>2
    <3> QED
      BY <1>1, <3>1, AtSlot
  <2>2. Shown \in [1 .. time.len -> T]
    BY <2>1 DEF Shown
  <2>3. x \in T
    BY <1>1
  <2> HIDE DEF T
  <2>4. Shown \in Seq(T) /\ Len(Shown) = time.len
    BY <1>2, <2>2
  <2> QED
    BY <2>3, <2>4
<1>8. S!LastOf(Append(Shown, x)) = [i \in 1 .. n |-> IF i < n THEN Shown[i + time.len + 1 - n] ELSE x]
  <2> HIDE DEF x, T
  <2>0. Len(Shown) = time.len
    BY <1>7
  <2>1. n = Len(Shown) + 1 - (IF Len(Shown) < Samples THEN 0 ELSE 1) /\ n \in Nat /\ Len(Shown) <= Samples
    BY <1>2, <1>5, <2>0
  <2> HIDE DEF n
  <2> DEFINE s == Shown
  <2>2. s \in Seq(T) /\ x \in T /\ Leaves(s, n)
    BY <1>7, <2>1 DEF Leaves
  <2>3. S!LastOf(Append(s, x)) = [i \in 1 .. n |-> IF i < n THEN s[i + Len(s) + 1 - n] ELSE x]
    <3> HIDE DEF s
    <3> QED BY <2>2, LastOfAppended
  <2> QED
    BY <2>0, <2>3
<1>9. Shown' = [i \in 1 .. n |-> [at |-> At(time', i - 1), peak |-> At(slip', i - 1)]]
  BY <1>5 DEF Shown
<1>10. \A i \in 1 .. n : [at |-> At(time', i - 1), peak |-> At(slip', i - 1)]
                        = IF i < n THEN Shown[i + time.len + 1 - n] ELSE x
  <2> SUFFICES ASSUME NEW i \in 1 .. n
               PROVE  [at |-> At(time', i - 1), peak |-> At(slip', i - 1)]
                      = IF i < n THEN Shown[i + time.len + 1 - n] ELSE x
    OBVIOUS
  <2>1. CASE i < n
    <3>1. i - 1 \in 0 .. n - 2 /\ i + time.len + 1 - n = i + d /\ i + d \in 1 .. time.len /\ (i - 1) + d = (i + d) - 1
      BY <1>2, <1>5, <2>1
    <3>2. At(time', i - 1) = At(time, (i + d) - 1) /\ At(slip', i - 1) = At(slip, (i + d) - 1)
      BY <1>5, <1>6, <3>1
    <3>3. Shown[i + d] = [at |-> At(time, (i + d) - 1), peak |-> At(slip, (i + d) - 1)]
      BY <3>1 DEF Shown
    <3> QED
      BY <2>1, <3>1, <3>2, <3>3
  <2>2. CASE i = n
    BY <1>5, <1>6, <2>2
  <2> QED
    BY <1>5, <2>1, <2>2
<1>11. Shown' = S!LastOf(Append(Shown, x))
  BY <1>8, <1>9, <1>10
<1>12. x = [at |-> now, peak |-> S!Max(unshown \cup {v})]
  BY HeldIsMax
<1> QED
  BY <1>3, <1>11, <1>12 DEF S!Take

(* The history is the window of samples that Sampling promises: the rings  *)
(* never get out of step and no packet's slip goes unshown                 *)
(* (history.js:67-89).                                                     *)
THEOREM HistoryRefinesSampling == Spec => KeepsPeaks
<1>1. Init => S!Init
  <2> SUFFICES ASSUME Init PROVE S!Init
    OBVIOUS
  <2>1. time.len = 0
    BY DEF Init, NewRing
  <2>2. Shown = <<>>
    BY <2>1 DEF Shown
  <2> QED
    BY <2>2 DEF Init, S!Init
<1>2. HInv /\ [Next]_vars => [S!Next]_<<Shown, unshown>>
  <2> SUFFICES ASSUME HInv, [Next]_vars PROVE S!Next \/ UNCHANGED <<Shown, unshown>>
    OBVIOUS
  <2>1. ASSUME NEW v \in Slips, NEW hasDash \in BOOLEAN, Packet(v, hasDash) PROVE S!Next
    <3>1. CASE now >= nextSampleAt
      <4>1. S!Take(v, now) /\ now \in Clock
        BY <2>1, <3>1, SampleIsTaken DEF Packet, HInv, TypeOK
      <4> QED
        BY <4>1 DEF S!Next
    <3>2. CASE ~(now >= nextSampleAt)
      <4>1. unshown' = unshown \cup {v} /\ Shown' = Shown
        BY <2>1, <3>2 DEF Packet, Skip, Shown
      <4> QED
        BY <4>1 DEF S!Next, S!PutOff
    <3> QED
      BY <3>1, <3>2
  <2>2. CASE Tick
    BY <2>2 DEF Tick, Shown
  <2>3. CASE UNCHANGED vars
    BY <2>3 DEF vars, Shown
  <2> QED
    BY <2>1, <2>2, <2>3 DEF Next
<1> QED
  BY <1>1, <1>2, HInvAlways, PTL DEF Spec, KeepsPeaks, S!Spec

-----------------------------------------------------------------------------
(* Every set of numbers has a least one. *)
LEMMA LeastNumber ==
    ASSUME NEW T, T \subseteq Nat, T # {}
    PROVE  \E x \in T : \A y \in T : x <= y
<1>1. \E x \in T : \A y \in T : ~(<<y, x>> \in OpToRel(<, Nat))
  BY NatLessThanWellFounded, WFMin
<1>2. \A x, y \in Nat : x < y => <<x, y>> \in OpToRel(<, Nat)
  BY DEF OpToRel
<1>3. PICK x \in T : \A y \in T : ~(<<y, x>> \in OpToRel(<, Nat))
  BY <1>1
<1>4. ASSUME NEW y \in T PROVE x <= y
  <2>1. ~(y < x)
    BY <1>2, <1>3
  <2> QED BY <2>1
<1> QED BY <1>4

(* From each sample the loop goes down to one and one only: the last for   *)
(* which its condition does not hold.                                      *)
StopsAt(k, i, ms) ==
    k \in 0 .. i /\ ~Earlier(k, ms) /\ \A j \in k + 1 .. i : Earlier(j, ms)

LEMMA LoopStops ==
    ASSUME NEW i \in Nat, NEW ms
    PROVE  \E k : StopsAt(k, i, ms)
<1> DEFINE T == {d \in 0 .. i : ~Earlier(i - d, ms)}
<1>1. T \subseteq Nat /\ T # {}
  <2>1. ~Earlier(0, ms)
    BY DEF Earlier
  <2>2. i \in 0 .. i /\ i - i = 0
    OBVIOUS
  <2>3. i \in T
    BY <2>1, <2>2
  <2> QED BY <2>3
<1>2. PICK d \in T : \A e \in T : d <= e
  BY <1>1, LeastNumber
<1>3. i - d \in 0 .. i /\ ~Earlier(i - d, ms)
  BY <1>2
<1>4. ASSUME NEW j \in i - d + 1 .. i PROVE Earlier(j, ms)
  <2>1. i - j \in 0 .. i /\ i - (i - j) = j /\ i - j < d
    BY <1>2
  <2>2. i - j \notin T
    BY <1>2, <2>1
  <2> QED BY <2>1, <2>2
<1> QED BY <1>3, <1>4 DEF StopsAt

LEMMA LoopStopsOnce ==
    ASSUME NEW i \in Nat, NEW ms, NEW k, StopsAt(k, i, ms), NEW l, StopsAt(l, i, ms)
    PROVE  k = l
<1>1. k \in 0 .. i /\ l \in 0 .. i /\ ~Earlier(k, ms) /\ ~Earlier(l, ms)
  BY DEF StopsAt
<1>2. k < l => Earlier(l, ms)
  BY <1>1 DEF StopsAt
<1>3. l < k => Earlier(k, ms)
  BY <1>1 DEF StopsAt
<1> QED BY <1>1, <1>2, <1>3

(* The loop written as a recursive function ends where it stops.           *)
LEMMA WindowStartStops ==
    ASSUME time.len \in Nat, time.len > 0, NEW ms
    PROVE  StopsAt(WindowStart(ms), time.len - 1, ms)
<1> DEFINE n == time.len
           Stop == [i \in 0 .. n - 1 |-> CHOOSE k : StopsAt(k, i, ms)]
           Body(g) == [i \in 0 .. n - 1 |-> IF Earlier(i, ms) THEN g[i - 1] ELSE i]
           from == CHOOSE g : g = Body(g)
<1>1. WindowStart(ms) = from[n - 1]
  BY DEF WindowStart
<1>2. \A i \in 0 .. n - 1 : StopsAt(Stop[i], i, ms)
  BY LoopStops
<1>3. ASSUME NEW i \in 0 .. n - 1, Earlier(i, ms)
      PROVE  i - 1 \in 0 .. n - 1 /\ Stop[i] = Stop[i - 1]
  <2>1. i > 0
    BY <1>3 DEF Earlier
  <2>2. i - 1 \in 0 .. n - 1 /\ i \in Nat
    BY <2>1
  <2>3. StopsAt(Stop[i - 1], i - 1, ms)
    BY <1>2, <2>2
  <2>4. StopsAt(Stop[i - 1], i, ms)
    BY <1>3, <2>2, <2>3 DEF StopsAt
  <2>5. StopsAt(Stop[i], i, ms)
    BY <1>2
  <2> HIDE DEF Stop
  <2>6. Stop[i] = Stop[i - 1]
    BY <2>2, <2>4, <2>5, LoopStopsOnce
  <2> QED BY <2>2, <2>6
<1>4. ASSUME NEW i \in 0 .. n - 1, ~Earlier(i, ms) PROVE Stop[i] = i
  <2>1. i \in Nat /\ StopsAt(i, i, ms)
    BY <1>4 DEF StopsAt
  <2>2. StopsAt(Stop[i], i, ms)
    BY <1>2
  <2> HIDE DEF Stop
  <2> QED BY <2>1, <2>2, LoopStopsOnce
<1>5. Stop = Body(Stop)
  <2>1. \A i \in 0 .. n - 1 : Stop[i] = Body(Stop)[i]
    <3> HIDE DEF Stop
    <3> QED BY <1>3, <1>4
  <2>2. Stop = [i \in 0 .. n - 1 |-> Stop[i]] /\ Body(Stop) = [i \in 0 .. n - 1 |-> Body(Stop)[i]]
    OBVIOUS
  <2> HIDE DEF Stop, Body
  <2> QED BY <2>1, <2>2
<1>6. from = Body(from)
  <2> HIDE DEF Stop, Body
  <2> QED BY <1>5
<1>7. \A i \in 0 .. n - 1 : from[i] = IF Earlier(i, ms) THEN from[i - 1] ELSE i
  <2> HIDE DEF from
  <2> QED BY <1>6
<1> HIDE DEF from, Stop, Body
<1>8. \A i \in 0 .. n - 1 : from[i] = Stop[i]
  <2> DEFINE Off == {i \in 0 .. n - 1 : from[i] # Stop[i]}
  <2>1. CASE Off # {}
    <3>1. PICK i \in Off : \A j \in Off : i <= j
      <4>1. Off \subseteq Nat
        OBVIOUS
      <4> HIDE DEF Off
      <4> QED BY <2>1, <4>1, LeastNumber
    <3>2. Earlier(i, ms)
      BY <1>4, <1>7
    <3>3. i - 1 \in 0 .. n - 1 /\ Stop[i] = Stop[i - 1] /\ from[i] = from[i - 1]
      BY <1>3, <1>7, <3>2
    <3>4. i - 1 \in Off
      BY <3>3
    <3> QED BY <3>1, <3>4
  <2> QED BY <2>1
<1>9. n - 1 \in 0 .. n - 1
  OBVIOUS
<1> QED BY <1>1, <1>2, <1>8, <1>9

(* The samples' times are numbers, each later than the one before.         *)
LEMMA TimesIncrease ==
    ASSUME HInv
    PROVE  /\ time.len \in Nat
           /\ \A i \in 0 .. time.len - 1 : At(time, i) \in Nat
           /\ \A i, j \in 0 .. time.len - 1 : i < j => At(time, i) < At(time, j)
<1>1. time \in Rings(Samples, Clock) /\ Samples \in Nat \ {0}
  BY SamplesReach DEF HInv, TypeOK
<1>2. time.len \in Nat
  BY <1>1, RingFields
<1>3. ASSUME NEW i \in 0 .. time.len - 1 PROVE At(time, i) \in Nat
  <2>1. At(time, i) \in Clock
    BY <1>1, AtSlot
  <2> QED BY <2>1 DEF Clock
<1>4. ASSUME NEW i \in 0 .. time.len - 1, NEW j \in 0 .. time.len - 1, i < j
      PROVE  At(time, i) < At(time, j)
  <2> DEFINE k == j - i
             far == At(time, j) - At(time, i)
  <2>1. far >= (j - i) * SampleTime - Half
    BY <1>4 DEF HInv, Paced
  <2>2. k \in Nat /\ k >= 1 /\ far \in Int /\ far >= k * SampleTime - Half
    BY <1>2, <1>3, <1>4, <2>1
  <2>3. far > 0
    <3> HIDE DEF k, far
    <3>1. PICK m \in Nat : k = m + 1
      BY <2>2, k - 1 \in Nat
    <3>2. k * SampleTime = m * SampleTime + SampleTime /\ m * SampleTime \in Nat
      BY <3>1, SampleNumbers
    <3>3. k * SampleTime \in Nat /\ k * SampleTime >= SampleTime
      BY <3>2, SampleNumbers
    <3> QED BY <2>2, <3>3, SampleNumbers
  <2> QED BY <1>3, <2>3
<1> QED BY <1>2, <1>3, <1>4

(* A trace begins with the first sample that is young enough; the times in *)
(* the ring increase, so all samples after it are, and none before it.     *)
LEMMA TraceIsWhole ==
    ASSUME HInv, time.len >= 2, NEW ms \in Nat
    PROVE  Trace(ms) = {i \in 0 .. time.len - 1 : Newest(time) - At(time, i) <= ms}
<1> DEFINE n == time.len
           w == WindowStart(ms)
           Young(i) == Newest(time) - At(time, i) <= ms
<1>1. /\ n \in Nat /\ \A i \in 0 .. n - 1 : At(time, i) \in Nat
      /\ \A i, j \in 0 .. n - 1 : i < j => At(time, i) < At(time, j)
  BY TimesIncrease
<1>2. w \in 0 .. n - 1 /\ ~Earlier(w, ms) /\ \A j \in w + 1 .. n - 1 : Earlier(j, ms)
  BY <1>1, WindowStartStops DEF StopsAt
<1>3. Trace(ms) = w .. n - 1
  BY <1>1 DEF Trace
<1>4. Newest(time) = At(time, n - 1)
  BY <1>1 DEF Newest
<1>5. \A j \in Nat : Earlier(j, ms) <=> j > 0 /\ Young(j - 1)
  BY DEF Earlier
<1> HIDE DEF n, w
<1>6. n \in Nat /\ n >= 2 /\ At(time, n - 1) \in Nat
  BY <1>1 DEF n
<1>7. ASSUME NEW i \in w .. n - 1 PROVE i \in 0 .. n - 1 /\ Young(i)
  <2>1. i \in 0 .. n - 1
    BY <1>2, <1>6
  <2>2. CASE i = n - 1
    BY <1>4, <1>6, <2>2
  <2>3. CASE i < n - 1
    <3>1. i + 1 \in w + 1 .. n - 1 /\ i + 1 \in Nat /\ i + 1 - 1 = i
      BY <1>2, <1>6, <2>3
    <3> QED BY <1>2, <1>5, <2>1, <3>1
  <2> QED BY <1>6, <2>1, <2>2, <2>3
<1>8. ASSUME NEW i \in 0 .. n - 1, i < w PROVE ~Young(i)
  <2>1. w \in Nat /\ w > 0 /\ w - 1 \in 0 .. n - 1
    BY <1>2, <1>6, <1>8
  <2>2. ~Young(w - 1)
    BY <1>2, <1>5, <2>1
  <2>3. At(time, i) <= At(time, w - 1) /\ At(time, i) \in Nat /\ At(time, w - 1) \in Nat
    <3>1. i = w - 1 \/ i < w - 1
      BY <1>8, <2>1
    <3> QED BY <1>1, <2>1, <3>1
  <2> QED BY <1>4, <1>6, <2>2, <2>3
<1>9. \A i \in 0 .. n - 1 : i \in w .. n - 1 <=> Young(i)
  BY <1>2, <1>6, <1>7, <1>8
<1>10. w .. n - 1 \subseteq 0 .. n - 1
  BY <1>7
<1> QED BY <1>3, <1>9, <1>10 DEF n

(* A chart draws exactly the samples that are young enough, for every ring *)
(* and both of the charts' times (charts.js:37-44, 88-91).                 *)
THEOREM WindowIsAlwaysWhole == Spec => []WindowIsWhole
<1>1. HInv => WindowIsWhole
  <2>1. TrailShown \in Nat /\ HistoryTime \in Nat
    BY ChartSizes, SampleNumbers
  <2> QED BY <2>1, TraceIsWhole DEF WindowIsWhole
<1> QED BY <1>1, HInvAlways, PTL

(* Numbers fall into chunks of one length, each into one.                  *)
LEMMA OneChunk ==
    ASSUME NEW per \in Nat, per > 0, NEW k \in Nat
    PROVE  /\ k \div per \in Nat
           /\ \A d \in Nat : d * per \in Nat /\ (d * per <= k /\ k < d * per + per <=> d = k \div per)
<1> DEFINE c == k \div per
<1>1. c \in Nat /\ c * per <= k /\ k < c * per + per /\ c * per \in Nat
  OBVIOUS
<1> HIDE DEF c
<1>2. ASSUME NEW d \in Nat, NEW e \in Nat, d < e
      PROVE  d * per \in Nat /\ e * per \in Nat /\ d * per + per <= e * per
  <2>1. PICK m \in Nat : e = d + 1 + m
    BY <1>2, e - d - 1 \in Nat
  <2>2. e * per = d * per + per + m * per /\ m * per \in Nat /\ d * per \in Nat
    BY <2>1
  <2> QED BY <2>2
<1>3. ASSUME NEW d \in Nat
      PROVE  d * per \in Nat /\ (d * per <= k /\ k < d * per + per <=> d = c)
  <2>1. d * per \in Nat
    OBVIOUS
  <2>2. d < c => ~(k < d * per + per)
    BY <1>1, <1>2, <2>1
  <2>3. c < d => ~(d * per <= k)
    BY <1>1, <1>2, <2>1
  <2> QED BY <1>1, <2>1, <2>2, <2>3
<1> QED BY <1>1, <1>3 DEF c

(* Rounded up, the chunks are long enough for all.                         *)
LEMMA ChunksSuffice ==
    ASSUME NEW a \in Nat, a > 0, NEW b \in Nat, b > 0
    PROVE  LET per == (a + b - 1) \div b
           IN  per \in Nat /\ per > 0 /\ b * per \in Nat /\ b * per >= a
<1> DEFINE per == (a + b - 1) \div b
<1>1. per \in Nat /\ per * b > a - 1 /\ per * b \in Nat
  OBVIOUS
<1> HIDE DEF per
<1>2. per * b = b * per
  BY <1>1
<1>3. per # 0
  <2>1. per = 0 => per * b = 0
    OBVIOUS
  <2> QED BY <1>1, <2>1
<1> QED BY <1>1, <1>2, <1>3 DEF per

(* The chunk of a sample is its distance from the first one, divided by    *)
(* the chunks' length; the last chunks may be short, or empty.             *)
LEMMA StretchInOneChunk ==
    ASSUME HInv, NEW i \in Trace(TrailShown) \ {time.len - 1}
    PROVE  \E c \in 0 .. Chunks - 1 : \A d \in 0 .. Chunks - 1 : i \in Stretches(d) <=> d = c
<1> DEFINE n == time.len
           w == WindowStart(TrailShown)
           per == Per
           k == i - w
           c == k \div per
<1>1. n \in Nat /\ n >= 2 /\ i \in w .. n - 1 /\ i # n - 1
  BY TimesIncrease DEF Trace
<1>2. w \in 0 .. n - 1
  BY <1>1, WindowStartStops DEF StopsAt
<1>3. Chunks \in Nat /\ Chunks > 0
  BY ChartSizes
<1>4. per \in Nat /\ per > 0 /\ Chunks * per \in Nat /\ Chunks * per >= n - w
  <2> DEFINE a == n - w
  <2>1. a \in Nat /\ a > 0 /\ per = (a + Chunks - 1) \div Chunks
    BY <1>1, <1>2 DEF Per, Trail
  <2> HIDE DEF a, per, n, w
  <2>2. per \in Nat /\ per > 0 /\ Chunks * per \in Nat /\ Chunks * per >= a
    BY <1>3, <2>1, ChunksSuffice
  <2> QED BY <2>2 DEF a
<1>5. \A d : Stretches(d) = (w + d * per) .. ((IF n - 1 < w + d * per + per THEN n - 1 ELSE w + d * per + per) - 1)
  BY <1>1 DEF Stretches, From, Until
<1> HIDE DEF n, w, per
<1>6. k \in Nat /\ k < n - w /\ i = w + k /\ i < n - 1
  BY <1>1, <1>2
<1> HIDE DEF k
<1>7. /\ c \in Nat
      /\ \A d \in Nat : d * per \in Nat /\ (d * per <= k /\ k < d * per + per <=> d = c)
  BY <1>4, <1>6, OneChunk
<1> HIDE DEF c
<1>8. c < Chunks
  <2>1. ASSUME c >= Chunks PROVE FALSE
    <3>1. PICK m \in Nat : c = Chunks + m
      BY <1>3, <1>7, <2>1, c - Chunks \in Nat
    <3>2. c * per = Chunks * per + m * per /\ m * per \in Nat
      BY <1>3, <1>4, <3>1
    <3>3. c * per <= k
      BY <1>7
    <3>4. n - w \in Nat
      BY <1>1, <1>2
    <3> QED BY <1>4, <1>6, <3>2, <3>3, <3>4
  <2> QED BY <1>3, <1>7, <2>1
<1>9. ASSUME NEW d \in Nat PROVE i \in Stretches(d) <=> d = c
  <2> DEFINE s == d * per
  <2>1. s \in Nat /\ (s <= k /\ k < s + per <=> d = c)
    BY <1>7
  <2>2. Stretches(d) = (w + s) .. ((IF n - 1 < w + s + per THEN n - 1 ELSE w + s + per) - 1)
    BY <1>5
  <2> HIDE DEF s
  <2>3. i \in Stretches(d) <=> s <= k /\ k < s + per
    BY <1>1, <1>2, <1>4, <1>6, <2>1, <2>2
  <2> QED BY <2>1, <2>3
<1>10. c \in 0 .. Chunks - 1
  BY <1>3, <1>7, <1>8
<1>11. \A d \in 0 .. Chunks - 1 : i \in Stretches(d) <=> d = c
  BY <1>3, <1>9
<1> QED BY <1>10, <1>11

(* Every stretch of the trail between two samples is drawn by one chunk    *)
(* and one only, for every number of chunks and of samples                 *)
(* (charts.js:145-167).                                                    *)
THEOREM TrailIsDrawnOnce == Spec => []TrailDrawnOnce
<1>1. HInv => TrailDrawnOnce
  BY StretchInOneChunk DEF TrailDrawnOnce
<1> QED BY <1>1, HInvAlways, PTL
===============================================================================
