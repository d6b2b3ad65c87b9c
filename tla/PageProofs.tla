------------------------------ MODULE PageProofs ------------------------------
(***************************************************************************)
(* One page keeps the style of its car, the truth of its dot and the       *)
(* freshness of its picks, whatever its cars, styles and time limits.      *)
(***************************************************************************)
EXTENDS Page, TLAPS

(* The dot has the colour of the notice that was given with it; with none, *)
(* once a notice has come or gone after the grace.                         *)
Colour(notice) ==
    CASE notice = "disconnected" -> "error"
      [] notice \in {"no telemetry", "unrecognized"} -> "warn"
      [] OTHER -> "ok"
Coloured ==
    /\ judged => now > Grace
    /\ judged \/ banner # "" => dot = Colour(banner)

(* valid is no older than the last animation frame. *)
Recent == valid => age <= NoData /\ (drawn => age < NoData)

PInv == TypeOK /\ StyleFollowsCar /\ Coloured /\ Recent

-----------------------------------------------------------------------------
(* applyCarStyle() shows a style. *)
LEMMA StyleForIsStyle ==
    ASSUME NEW map \in Maps, NEW car \in Cars \cup {NoCar}, NEW shown \in Styles
    PROVE  /\ StyleFor(map, car, shown) \in Styles
           /\ StyleFor(map, car, StyleFor(map, car, shown)) = StyleFor(map, car, shown)
           /\ Known(map, car) => StyleFor(map, car, shown) = map[car]
           /\ ~Known(map, car) => \A other : StyleFor(map, car, other) = other
<1>1. CASE car \in Cars /\ map[car] # NoStyle
  <2>1. map[car] \in Styles
    BY <1>1 DEF Maps
  <2>2. \A other : StyleFor(map, car, other) = map[car]
    BY <1>1 DEF StyleFor
  <2> QED BY <1>1, <2>1, <2>2 DEF Known
<1>2. CASE ~(car \in Cars /\ map[car] # NoStyle)
  <2>1. \A other : StyleFor(map, car, other) = other
    BY <1>2 DEF StyleFor
  <2> QED BY <2>1 DEF Known
<1> QED BY <1>1, <1>2

(* The clock's types, one by one. *)
LEMMA Numbers ==
    /\ Grace \in Nat /\ NoData \in Nat /\ NoData > 0
    /\ TypeOK => now \in Nat /\ now <= Grace + 1 /\ age \in Nat /\ age <= NoData + 1
<1>1. Grace \in Nat /\ NoData \in Nat /\ NoData > 0
  BY Times
<1>2. TypeOK => now \in 0 .. Grace + 1 /\ age \in 0 .. NoData + 1
  BY DEF TypeOK
<1>3. ASSUME NEW n \in Nat, NEW k \in 0 .. n + 1 PROVE k \in Nat /\ k <= n + 1
  OBVIOUS
<1> QED BY <1>1, <1>2, <1>3

(* A page starts as the invariant says. *)
LEMMA PInvInit == Init => PInv
<1> SUFFICES ASSUME Init PROVE PInv
  OBVIOUS
<1>1. TypeOK
  <2>1. now \in 0 .. Grace + 1 /\ age \in 0 .. NoData + 1
    <3>1. 0 \in 0 .. Grace + 1 /\ NoData + 1 \in 0 .. NoData + 1
      BY Numbers
    <3> QED BY <3>1 DEF Init
  <2>2. carStyles \in Maps
    BY DEF Init, Maps
  <2> QED BY <2>1, <2>2 DEF Init, TypeOK, Notices
<1>2. StyleFollowsCar
  BY NamesDiffer DEF Init, StyleFollowsCar, StyleFor
<1>3. Coloured /\ Recent
  BY DEF Init, Coloured, Recent
<1> QED BY <1>1, <1>2, <1>3 DEF PInv

(* The notices, case by case. *)
LEMMA NoticeCases ==
    /\ ~wsOpen /\ now > Grace => Notice = "disconnected"
    /\ ~wsOpen /\ ~(now > Grace) => Notice = ""
    /\ wsOpen /\ ~Live => Notice = "no telemetry"
    /\ Live /\ badSize => Notice = "unrecognized"
    /\ Live /\ ~badSize => Notice \in {"paused", ""}
<1>1. Live => wsOpen
  BY DEF Live
<1>2. CASE ~wsOpen /\ now > Grace
  BY <1>1, <1>2 DEF Notice
<1>3. CASE ~wsOpen /\ ~(now > Grace)
  BY <1>1, <1>3 DEF Notice
<1>4. CASE wsOpen /\ ~Live
  BY <1>4 DEF Notice
<1>5. CASE wsOpen /\ Live /\ badSize
  BY <1>5 DEF Notice
<1>6. CASE wsOpen /\ Live /\ ~badSize
  <2>1. CASE isRaceOn
    BY <1>6, <2>1 DEF Notice
  <2>2. CASE ~isRaceOn
    BY <1>6, <2>2 DEF Notice
  <2> QED BY <2>1, <2>2, <1>6
<1> QED BY <1>1, <1>2, <1>3, <1>4, <1>5, <1>6

(* The notice is one of the banner's notices. *)
LEMMA NoticeIsOne == Notice \in Notices
<1>1. Live => wsOpen
  BY DEF Live
<1> QED BY <1>1, NoticeCases DEF Notices

(* A notice tells the dot's colour, and past the grace the lack of one does.*)
LEMMA NoticeGivesColour ==
    now > Grace \/ Notice # "" => Colour(Notice) = Dot
<1> SUFFICES ASSUME now > Grace \/ Notice # "" PROVE Colour(Notice) = Dot
  OBVIOUS
<1>1. Live => wsOpen
  BY DEF Live
<1>2. CASE ~wsOpen
  BY <1>1, <1>2, NoticeCases DEF Colour, Dot
<1>3. CASE wsOpen /\ ~Live
  BY <1>3, NoticeCases DEF Colour, Dot
<1>4. CASE Live /\ badSize
  BY <1>1, <1>4, NoticeCases DEF Colour, Dot
<1>5. CASE Live /\ ~badSize
  BY <1>5, NoticeCases DEF Colour, Dot
<1> QED BY <1>2, <1>3, <1>4, <1>5

(* Every step keeps the types. *)
LEMMA TypeStep == TypeOK /\ [Next]_vars => TypeOK'
<1> SUFFICES ASSUME TypeOK, [Next]_vars PROVE TypeOK'
  OBVIOUS
<1>1. ASSUME NEW open \in BOOLEAN, OnState(open) PROVE TypeOK'
  BY <1>1 DEF OnState, TypeOK, clock, signs, styles
<1>2. ASSUME NEW map \in Maps, OnStyles(map) PROVE TypeOK'
  <2>1. style' \in Styles
    BY <1>2, StyleForIsStyle DEF OnStyles, StyleHeard, TypeOK
  <2> QED BY <1>2, <2>1 DEF OnStyles, TypeOK, clock, signs
<1>3. ASSUME NEW car \in Cars \cup {NoCar}, NEW race \in BOOLEAN, OnPacket(car, race) PROVE TypeOK'
  <2>1. style' \in Styles /\ unsaved' \in BOOLEAN
    BY <1>3, StyleForIsStyle DEF OnPacket, TypeOK
  <2>2. age' \in 0 .. NoData + 1
    BY <1>3, Times DEF OnPacket
  <2> QED BY <1>3, <2>1, <2>2 DEF OnPacket, TypeOK, signs
<1>4. ASSUME OnBadPacket PROVE TypeOK'
  <2>1. age' \in 0 .. NoData + 1
    BY <1>4, Times DEF OnBadPacket
  <2> QED BY <1>4, <2>1 DEF OnBadPacket, TypeOK, signs, styles
<1>5. ASSUME NEW s \in Styles, Pick(s) PROVE TypeOK'
  <2>1. carStyles' \in Maps /\ unsaved' \in BOOLEAN
    BY <1>5 DEF Pick, TypeOK, Maps
  <2> QED BY <1>5, <2>1 DEF Pick, TypeOK, clock, signs
<1>6. ASSUME Frame PROVE TypeOK'
  <2>1. valid' \in BOOLEAN
    BY <1>6 DEF Frame, Live, TypeOK
  <2>3. banner' \in Notices
    BY <1>6, NoticeIsOne DEF Frame
  <2>2. dot' \in {"", "ok", "warn", "error"} /\ judged' \in BOOLEAN
    BY <1>6, Times DEF Frame, Dot, TypeOK
  <2> QED BY <1>6, <2>1, <2>2, <2>3 DEF Frame, TypeOK, styles
<1>7. ASSUME Tick PROVE TypeOK'
  <2>1. now' \in 0 .. Grace + 1 /\ age' \in 0 .. NoData + 1
    <3>1. now' = IF now > Grace THEN now ELSE now + 1
      BY <1>7 DEF Tick
    <3>2. age' = IF age > NoData THEN age ELSE age + 1
      BY <1>7 DEF Tick
    <3> QED BY <3>1, <3>2, Numbers
  <2> QED BY <1>7, <2>1 DEF Tick, TypeOK, signs, styles
<1>8. ASSUME UNCHANGED vars PROVE TypeOK'
  BY <1>8 DEF vars, TypeOK, clock, signs, styles
<1> QED BY <1>1, <1>2, <1>3, <1>4, <1>5, <1>6, <1>7, <1>8 DEF Next

(* Every step keeps the style with the car. *)
LEMMA StyleStep == TypeOK /\ StyleFollowsCar /\ [Next]_vars => StyleFollowsCar'
<1> SUFFICES ASSUME TypeOK, StyleFollowsCar, [Next]_vars, ~unsaved'
             PROVE  style' = StyleFor(carStyles', lastCar', style')
  BY DEF StyleFollowsCar, StyleFor
<1>1. CASE UNCHANGED <<styles, lastCar>>
  BY <1>1 DEF StyleFollowsCar, StyleFor, styles
<1>2. ASSUME NEW map \in Maps, OnStyles(map) PROVE style' = StyleFor(carStyles', lastCar', style')
  <2>1. style' = StyleFor(map, lastCar, style) /\ carStyles' = map /\ lastCar' = lastCar
    BY <1>2 DEF OnStyles, StyleHeard
  <2> QED BY <2>1, StyleForIsStyle DEF TypeOK
<1>3. ASSUME NEW car \in Cars \cup {NoCar}, NEW race \in BOOLEAN, OnPacket(car, race)
      PROVE  style' = StyleFor(carStyles', lastCar', style')
  <2>1. carStyles' = carStyles /\ lastCar' = car /\ carStyles \in Maps /\ style \in Styles
    BY <1>3 DEF OnPacket, TypeOK
  <2>2. CASE car # lastCar
    BY <1>3, <2>1, <2>2, StyleForIsStyle DEF OnPacket
  <2>3. CASE car = lastCar
    BY <1>3, <2>1, <2>3 DEF OnPacket, StyleFollowsCar
  <2> QED BY <2>2, <2>3
<1>5. ASSUME NEW s \in Styles, Pick(s) PROVE style' = StyleFor(carStyles', lastCar', style')
  <2>1. /\ carStyles' = [carStyles EXCEPT ![lastCar] = s] /\ lastCar \in Cars
        /\ style' = s /\ lastCar' = lastCar
    BY <1>5 DEF Pick
  <2>2. carStyles'[lastCar] = s
    BY <2>1 DEF TypeOK, Maps
  <2> QED BY <2>1, <2>2 DEF StyleFor
<1>6. ASSUME \/ \E open \in BOOLEAN : OnState(open)
             \/ OnBadPacket \/ Frame \/ Tick \/ UNCHANGED vars
      PROVE  UNCHANGED <<styles, lastCar>>
  BY <1>6 DEF OnState, OnBadPacket, Frame, Tick, vars
<1> QED BY <1>1, <1>2, <1>3, <1>5, <1>6 DEF Next

(* Every step keeps the dot's colour that of the notice. *)
LEMMA ColourStep == TypeOK /\ Coloured /\ [Next]_vars => Coloured'
<1> SUFFICES ASSUME TypeOK, Coloured, [Next]_vars PROVE Coloured'
  OBVIOUS
<1>1. CASE Frame
  <2>1. CASE Notice # banner
    <3>1. banner' = Notice /\ dot' = Dot /\ now' = now /\ judged' = (judged \/ now > Grace)
      BY <1>1, <2>1 DEF Frame
    <3>2. judged' => now > Grace
      BY <3>1 DEF Coloured
    <3> QED BY <3>1, <3>2, NoticeGivesColour DEF Coloured, Colour
  <2>2. CASE Notice = banner
    BY <1>1, <2>2 DEF Frame, Coloured, Colour
  <2> QED BY <2>1, <2>2
<1>2. CASE Tick
  BY <1>2, Times DEF Tick, Coloured, Colour, TypeOK, signs
<1>3. CASE UNCHANGED <<now, signs>>
  BY <1>3 DEF Coloured, Colour, signs
<1>4. ASSUME \/ \E open \in BOOLEAN : OnState(open)
             \/ \E map \in Maps : OnStyles(map)
             \/ \E car \in Cars \cup {NoCar}, race \in BOOLEAN : OnPacket(car, race)
             \/ OnBadPacket \/ (\E s \in Styles : Pick(s)) \/ UNCHANGED vars
      PROVE  UNCHANGED <<now, signs>>
  BY <1>4 DEF OnState, OnStyles, OnPacket, OnBadPacket, Pick, vars, clock
<1> QED BY <1>1, <1>2, <1>3, <1>4 DEF Next

(* Every step keeps valid as fresh as the last animation frame. *)
LEMMA RecentStep == TypeOK /\ Recent /\ [Next]_vars => Recent'
<1> SUFFICES ASSUME TypeOK, Recent, [Next]_vars PROVE Recent'
  OBVIOUS
<1>1. CASE Frame
  <2>1. valid' => age < NoData
    BY <1>1 DEF Frame, Live
  <2>2. age' = age
    BY <1>1 DEF Frame
  <2> QED BY <2>1, <2>2, Numbers DEF Recent
<1>2. CASE Tick
  <2>1. drawn /\ ~drawn' /\ valid' = valid
    BY <1>2 DEF Tick, signs
  <2>2. age' = age \/ age' = age + 1
    BY <1>2 DEF Tick
  <2>3. valid => age < NoData
    BY <2>1 DEF Recent
  <2>4. valid => age' <= NoData
    BY <2>2, <2>3, Numbers
  <2> QED BY <2>1, <2>4 DEF Recent
<1>3. CASE UNCHANGED <<drawn, valid>> /\ age' = 0
  BY <1>3, Numbers DEF Recent
<1>4. CASE UNCHANGED <<drawn, valid, age>>
  BY <1>4 DEF Recent
<1>5. ASSUME \/ \E open \in BOOLEAN : OnState(open)
             \/ \E map \in Maps : OnStyles(map)
             \/ (\E s \in Styles : Pick(s)) \/ UNCHANGED vars
      PROVE  UNCHANGED <<drawn, valid, age>>
  BY <1>5 DEF OnState, OnStyles, Pick, vars, clock, signs
<1>6. ASSUME \/ \E car \in Cars \cup {NoCar}, race \in BOOLEAN : OnPacket(car, race)
             \/ OnBadPacket
      PROVE  UNCHANGED <<drawn, valid>> /\ age' = 0
  BY <1>6 DEF OnPacket, OnBadPacket, signs
<1> QED BY <1>1, <1>2, <1>3, <1>4, <1>5, <1>6 DEF Next

(* The invariant holds all along. *)
LEMMA PInvAlways == Spec => []PInv
<1>1. PInv /\ [Next]_vars => PInv'
  BY TypeStep, StyleStep, ColourStep, RecentStep DEF PInv
<1> QED BY PInvInit, <1>1, PTL DEF Spec

-----------------------------------------------------------------------------
(* The page's state keeps its types (main.js:17-31, 173-202). *)
THEOREM PageTypeCorrect == Spec => []TypeOK
<1>1. PInv => TypeOK
  BY DEF PInv
<1> QED BY PInvAlways, <1>1, PTL

(* The style on display follows the car and the map, however cars, maps    *)
(* and picks are interleaved (main.js:92-157).                             *)
THEOREM StyleAlwaysFollowsCar == Spec => []StyleFollowsCar
<1>1. PInv => StyleFollowsCar
  BY DEF PInv
<1> QED BY PInvAlways, <1>1, PTL

(* The dot is true after every animation frame, though it is touched only  *)
(* with a new notice (main.js:195-201), unless there is no notice and none *)
(* has come or gone since the grace was over (main.js:177, 196).           *)
THEOREM DotStaysHonest == Spec => DotIsHonest
<1> DEFINE True == dot' = IF valid' THEN "ok" ELSE IF wsOpen THEN "warn" ELSE "error"
           Silent == banner' = "" /\ ~judged'
<1>1. PInv /\ [Next]_vars => [Frame => True \/ Silent]_vars
  <2> SUFFICES ASSUME PInv, [Next]_vars, Frame, ~Silent PROVE True
    OBVIOUS
  <2>1. Coloured'
    BY ColourStep DEF PInv
  <2>2. banner' = Notice /\ now' = now /\ (judged' \/ Notice # "")
    BY DEF Frame
  <2>3. (now > Grace \/ Notice # "") /\ dot' = Colour(Notice)
    BY <2>1, <2>2 DEF Coloured, Colour
  <2>4. dot' = Dot
    BY <2>3, NoticeGivesColour
  <2> QED BY <2>4 DEF Dot, Frame
<1> QED BY PInvAlways, <1>1, PTL DEF Spec, DotIsHonest

(* A pick is saved for a car only if its telemetry was fresh at the last   *)
(* animation frame (main.js:98, 180-181).                                  *)
THEOREM PicksAreFresh == Spec => PickIsFresh
<1> DEFINE FreshPick == \A s \in Styles : Pick(s) /\ carStyles' # carStyles => age <= NoData
<1>1. PInv /\ [Next]_vars => [FreshPick]_vars
  <2> SUFFICES ASSUME PInv, NEW s \in Styles, Pick(s), carStyles' # carStyles PROVE age <= NoData
    OBVIOUS
  <2>1. valid
    BY DEF Pick
  <2> QED BY <2>1 DEF PInv, Recent
<1> QED BY PInvAlways, <1>1, PTL DEF Spec, PickIsFresh
===============================================================================
