--------------------------------- MODULE Page ---------------------------------
(***************************************************************************)
(* web/js/main.js: what one page makes of the socket's callbacks, of the   *)
(* user's picks and of animation frames: whether telemetry is live and     *)
(* valid, which notice the banner gives, the colour of the connection dot, *)
(* and which style the dash has.                                           *)
(*                                                                         *)
(* Time passes in units of half a second, with an animation frame or more  *)
(* in each; a hidden page, which has none, cannot be tapped either.  What  *)
(* other devices pick arrives as any map at any time (SharedStyles).       *)
(***************************************************************************)
EXTENDS Naturals

CONSTANTS
    Cars,     \* car ordinals above 0
    NoCar,    \* ordinal 0, and lastCar's -1 before the first packet
    Styles,   \* style ids
    NoStyle,  \* a car has no saved style
    NoData,   \* NO_DATA_MS
    Grace     \* CONNECT_GRACE_MS

ASSUME NamesDiffer == NoCar \notin Cars /\ NoStyle \notin Styles
ASSUME Times == NoData \in Nat \ {0} /\ Grace \in Nat

VARIABLES
    now,        \* time since the page was loaded, up to the first past Grace
    age,        \* time since lastPacketAt, up to the first past NoData
    drawn,      \* whether this unit of time has had its animation frame
    wsOpen,     \* state.wsOpen
    badSize,    \* the last packet was of an unknown size
    isRaceOn,   \* t.isRaceOn, of the last packet that parsed
    lastCar,    \* lastCar, which is t.carOrdinal after each of them
    valid,      \* state.valid, as of the last animation frame
    banner,     \* the notice on display: bannerKey
    dot,        \* the class of the connection dot
    judged,     \* history: the notice has changed, and the dot with it, after the grace
    carStyles,  \* state.carStyles
    style,      \* state.style, the one on display
    unsaved     \* history: the style on display was picked with no car to save it for

clock == <<now, age, drawn>>
signs == <<valid, banner, dot, judged>>
styles == <<carStyles, style, unsaved>>
vars == <<clock, wsOpen, badSize, isRaceOn, lastCar, signs, styles>>

Maps == [Cars -> Styles \cup {NoStyle}]
Notices == {"", "disconnected", "no telemetry", "unrecognized", "paused"}

(* The style comes from localStorage. *)
Init ==
    /\ now = 0 /\ age = NoData + 1 /\ drawn = FALSE
    /\ wsOpen = FALSE
    /\ badSize = FALSE /\ isRaceOn = FALSE /\ lastCar = NoCar
    /\ valid = FALSE /\ banner = "" /\ dot = "" /\ judged = FALSE
    /\ carStyles = [c \in Cars |-> NoStyle]
    /\ style \in Styles /\ unsaved = FALSE

-----------------------------------------------------------------------------
(* applyCarStyle() *)
StyleFor(map, car, shown) ==
    IF car \in Cars /\ map[car] # NoStyle THEN map[car] ELSE shown

Known(map, car) == StyleFor(map, car, NoStyle) # NoStyle

OnState(open) ==
    /\ wsOpen' = open
    /\ UNCHANGED <<clock, badSize, isRaceOn, lastCar, signs, styles>>

(* Bug: a map that arrives waits for the next car. *)
StyleKept(map) == style

StyleHeard(map) == StyleFor(map, lastCar, style)

(* onText of a styles frame. *)
OnStyles(map) ==
    /\ wsOpen
    /\ carStyles' = map
    /\ style' = StyleHeard(map)
    /\ unsaved' = (unsaved /\ ~Known(map, lastCar))
    /\ UNCHANGED <<clock, wsOpen, badSize, isRaceOn, lastCar, signs>>

(* onBinary of a packet that parses, and onCarChange(). *)
OnPacket(car, race) ==
    /\ wsOpen
    /\ age' = 0
    /\ badSize' = FALSE
    /\ isRaceOn' = race
    /\ lastCar' = car
    /\ IF car # lastCar
       THEN style' = StyleFor(carStyles, car, style) /\ unsaved' = FALSE
       ELSE UNCHANGED <<style, unsaved>>
    /\ UNCHANGED <<now, drawn, wsOpen, signs, carStyles>>

(* onBinary of a packet that does not: t is untouched. *)
OnBadPacket ==
    /\ wsOpen
    /\ age' = 0
    /\ badSize' = TRUE
    /\ UNCHANGED <<now, drawn, wsOpen, isRaceOn, lastCar, signs, styles>>

(* The select's change event: a pick is for a car only while its telemetry *)
(* is valid.                                                               *)
Pick(s) ==
    /\ s # style
    /\ style' = s
    /\ IF valid /\ lastCar \in Cars
       THEN carStyles' = [carStyles EXCEPT ![lastCar] = s] /\ unsaved' = FALSE
       ELSE UNCHANGED carStyles /\ unsaved' = TRUE
    /\ UNCHANGED <<clock, wsOpen, badSize, isRaceOn, lastCar, signs>>

-----------------------------------------------------------------------------
(* Bug: an open socket is taken for telemetry. *)
LiveWhileOpen == wsOpen

Live == wsOpen /\ age < NoData

Notice ==
    CASE ~wsOpen /\ now > Grace         -> "disconnected"
      [] wsOpen /\ ~Live                -> "no telemetry"
      [] Live /\ badSize                -> "unrecognized"
      [] Live /\ ~badSize /\ ~isRaceOn  -> "paused"
      [] OTHER                          -> ""

(* Bug: packets that do not parse are good enough. *)
DotByPackets == IF Live THEN "ok" ELSE IF wsOpen THEN "warn" ELSE "error"

Dot == IF Live /\ ~badSize THEN "ok" ELSE IF wsOpen THEN "warn" ELSE "error"

(* frame(): updateBanner(), which leaves the dot alone as long as the      *)
(* notice stays the same.                                                  *)
Frame ==
    /\ drawn' = TRUE
    /\ valid' = (Live /\ ~badSize)
    /\ banner' = Notice
    /\ IF Notice # banner
       THEN dot' = Dot /\ judged' = (judged \/ now > Grace)
       ELSE UNCHANGED <<dot, judged>>
    /\ UNCHANGED <<now, age, wsOpen, badSize, isRaceOn, lastCar, styles>>

Tick ==
    /\ drawn
    /\ drawn' = FALSE
    /\ now' = IF now > Grace THEN now ELSE now + 1
    /\ age' = IF age > NoData THEN age ELSE age + 1
    /\ UNCHANGED <<wsOpen, badSize, isRaceOn, lastCar, signs, styles>>

Next ==
    \/ \E open \in BOOLEAN : OnState(open)
    \/ \E map \in Maps : OnStyles(map)
    \/ \E car \in Cars \cup {NoCar}, race \in BOOLEAN : OnPacket(car, race)
    \/ OnBadPacket
    \/ \E s \in Styles : Pick(s)
    \/ Frame \/ Tick

Spec == Init /\ [][Next]_vars
-----------------------------------------------------------------------------
TypeOK ==
    /\ now \in 0 .. Grace + 1 /\ age \in 0 .. NoData + 1 /\ drawn \in BOOLEAN
    /\ wsOpen \in BOOLEAN
    /\ badSize \in BOOLEAN /\ isRaceOn \in BOOLEAN /\ lastCar \in Cars \cup {NoCar}
    /\ valid \in BOOLEAN /\ banner \in Notices
    /\ dot \in {"", "ok", "warn", "error"} /\ judged \in BOOLEAN
    /\ carStyles \in Maps /\ style \in Styles /\ unsaved \in BOOLEAN

(* The style on display is the one the page knows for its car, in whatever *)
(* order cars, maps and picks come (main.js:92-157), unless the user chose *)
(* it while there was no car to save it for.                               *)
StyleFollowsCar == ~unsaved => style = StyleFor(carStyles, lastCar, style)

(* After every animation frame the connection dot is true, though it is    *)
(* only touched when the notice changes (main.js:195-201), but for one     *)
(* case: there is no notice, and none has come or gone since the grace was *)
(* over.  That is the page that says nothing of a connection it has yet to *)
(* make, and also one whose socket opens within the grace with a packet    *)
(* before the next frame (main.js:177): its dot waits for the first notice.*)
DotIsHonest ==
    [][Frame =>
        \/ dot' = IF valid' THEN "ok" ELSE IF wsOpen THEN "warn" ELSE "error"
        \/ banner' = "" /\ ~judged']_vars

(* A pick is saved for a car only if a packet came less than NO_DATA_MS    *)
(* and one unit of time before, though valid is as old as the last         *)
(* animation frame (main.js:98, 180-181).                                  *)
PickIsFresh == [][\A s \in Styles : Pick(s) /\ carStyles' # carStyles => age <= NoData]_vars
===============================================================================
