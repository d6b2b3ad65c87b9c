-------------------------------- MODULE Screen --------------------------------
(***************************************************************************)
(* web/js/telemetry/index.js: the telemetry screen.  Its panels are lists  *)
(* of rows, each with a text and perhaps a meter, that are refreshed at    *)
(* about 15 Hz from the one telemetry object and from the session peaks;   *)
(* what the source does not send is hidden.  Charts are redrawn at about   *)
(* 30 Hz when there is news and they are in view.                          *)
(*                                                                         *)
(* Rows that read the same section, under the same condition, are one row  *)
(* here, and all charts are one.  A frame refreshes the rows, the charts,  *)
(* both or neither, as the two intervals and the choice of screen let it;  *)
(* one that does both is two steps.  The rows of the server's status, which *)
(* Page has, and of the peaks, which have no need and no meter, are left   *)
(* out.                                                                    *)
(***************************************************************************)
EXTENDS Forza, FiniteSets

CONSTANTS
    Step,   \* the change a meter redraws for, 2 thousandths
    Looks,  \* sizes of a chart on the page together with the units it shows
    NoLook  \* a chart in a hidden panel or on a hidden screen has no size

ASSUME LooksDiffer == NoLook \notin Looks
ASSUME StepIsReal == Step \in Nat \ {0}

VARIABLES
    maxDash,   \* state.peaks, those of the dash section
    earned,    \* history: a packet that counts for them has come since the last Reset
    hidden,    \* the needs of the panels and rows that are hidden now
    text,      \* what each row says: one value, or nothing
    frac,      \* the value each meter remembers, if any
    meter,     \* the value each meter shows, if any
    look,      \* the look of the chart's canvas now
    instant,   \* the packets of this instant: "unknown" sizes, a "good" one first, or "late"
    key,       \* the chart's key: the look, and whether its time is the last packet's
    picture    \* what the chart shows: a look, and whether its rings are as they are now

rows == <<hidden, text, frac, meter>>
chart == <<look, instant, key, picture>>
screen == <<t, maxDash, earned, rows, chart>>

-----------------------------------------------------------------------------
(* A panel's rows: the need of the panel and of the row, what the row      *)
(* reads, and whether it has a meter.                                      *)
Plain(panel, need, reads) == [panel |-> panel, need |-> need, reads |-> reads, meter |-> FALSE]
Metered(panel, need, reads) == [panel |-> panel, need |-> need, reads |-> reads, meter |-> TRUE]

Stream == {Plain("", "", "sled")}
CarRows == {Plain("", "", "sled"), Plain("", "horizon", "horizon")}
Engine ==
    {Metered("", "", "sled"), Plain("", "", "sled"), Plain("", "dash", "dash"), Metered("", "dash", "dash")}
SpeedAndMotion == {Plain("", "", "sled"), Plain("", "dash", "dash")}
Acceleration == {Metered("", "", "sled"), Plain("", "", "sled")}
Rotation == {Plain("", "", "sled")}
Inputs == {Metered("dash", "", "dash")}
LapAndRace == {Plain("dash", "", "dash")}
Position == {Plain("dash", "", "dash"), Plain("dash", "wear", "wear")}
TireRows == {Metered("", "", "sled"), Plain("", "", "sled"), Metered("", "wear", "wear")}
TireHeads == {Plain("", "", "temperature")}

Rows ==
    UNION {Stream, CarRows, Engine, SpeedAndMotion, Acceleration, Rotation, Inputs, LapAndRace,
           Position, TireRows, TireHeads}
Meters == {r \in Rows : r.meter}
Needs == {r.panel : r \in Rows} \cup {r.need : r \in Rows}

(* What a row says now; the temperature in a tire's head is a dash when    *)
(* the source has none.                                                    *)
Says(r) ==
    IF r.reads # "temperature" THEN {t.of[r.reads]}
    ELSE IF Has(t, "dash") THEN {t.of["dash"]} ELSE {}

-----------------------------------------------------------------------------
(* Bug: a need nobody thought of is available. *)
AvailableButWear(need) == need \in {"", "wear"} \/ t.size = 0 \/ Has(t, need)
Available(need) == need = "" \/ t.size = 0 \/ Has(t, need)

(* Bug: a meter remembers each value, redrawn or not. *)
RememberEach(redrawn) == [m \in Meters |-> IF m.need \in hidden' THEN frac[m] ELSE Says(m)]
Remember(redrawn) == [m \in Meters |-> IF m \in redrawn THEN Says(m) ELSE frac[m]]

Apart(x, y) == x >= y + Step \/ y >= x + Step

(* The rows' part of a frame: first what is hidden, then the rows that are *)
(* not, in a hidden panel or not.                                          *)
Refresh ==
    /\ UNCHANGED <<t, maxDash, earned, chart>>
    /\ hidden' = {n \in Needs : ~Available(n)}
    /\ LET shown == {r \in Rows : r.need \notin hidden'}
           redrawn == {m \in shown \cap Meters : \A x \in frac[m], f \in Says(m) : Apart(f, x)}
       IN /\ text' = [r \in Rows |-> IF r \in shown THEN Says(r) ELSE text[r]]
          /\ meter' = [m \in Meters |-> IF m \in redrawn THEN Says(m) ELSE meter[m]]
          /\ frac' = Remember(redrawn)

(* Bug: the key does not have the packet. *)
KeyOfLook == [look |-> look, last |-> key.last]
KeyNow == [look |-> look, last |-> TRUE]

(* The charts' part of a frame, for a chart in view; nothing is drawn on a *)
(* canvas without a size.                                                  *)
Redraw ==
    /\ key # KeyNow
    /\ key' = KeyNow
    /\ picture' = IF look = NoLook THEN picture ELSE [look |-> look, whole |-> TRUE]
    /\ UNCHANGED <<t, maxDash, earned, rows, look, instant>>

(* The window, the panel or the units change. *)
Relook(l) ==
    /\ look' = l
    /\ UNCHANGED <<t, maxDash, earned, rows, instant, key, picture>>

-----------------------------------------------------------------------------
(* Bug: the dash section is taken for new whatever the format. *)
PeakOfAny(size) == TRUE
(* A packet of a known size counts for the peaks of the dash section. *)
PeakOf(size) == "dash" \in LAYOUTS[size]

(* updatePeaks(), after the packet was parsed. *)
UpdatePeaks(size, raceOn, v) ==
    IF raceOn /\ PeakOf(size)
    THEN /\ maxDash' = IF t'.of["dash"] > maxDash THEN t'.of["dash"] ELSE maxDash
         /\ earned' = (earned \/ "dash" \in LAYOUTS[size])
    ELSE UNCHANGED <<maxDash, earned>>

(* A packet in another instant makes another key, of a known size or not.  *)
(* Only the first good packet of an instant can be sampled: after it the   *)
(* next sample is due later (History).  It is late if one of an unknown    *)
(* size was there before.                                                  *)
Heard(known, again, sampled) ==
    /\ sampled => known /\ (again => instant = "unknown")
    /\ instant' = IF ~again THEN IF known THEN "good" ELSE "unknown"
                  ELSE IF known /\ instant = "unknown" THEN "late" ELSE instant
    /\ key' = [key EXCEPT !.last = key.last /\ again]
    /\ picture' = [picture EXCEPT !.whole = picture.whole /\ ~sampled]
    /\ UNCHANGED <<look, rows>>

OnBinary(size, raceOn, v, again, sampled) ==
    /\ Recognized(size)
    /\ Heard(TRUE, again, sampled)
    /\ t' = Parse(size, v)
    /\ UpdatePeaks(size, raceOn, v)

OnBadPacket(size, again) ==
    /\ ~Recognized(size)
    /\ Heard(FALSE, again, FALSE)
    /\ UNCHANGED <<t, maxDash, earned>>

Reset ==
    /\ maxDash' = 0 /\ earned' = FALSE
    /\ UNCHANGED <<t, rows, chart>>

ScreenInit ==
    /\ t = CreateTelemetry
    /\ maxDash = 0 /\ earned = FALSE
    /\ hidden = {}
    /\ text = [r \in Rows |-> {}]
    /\ frac = [m \in Meters |-> {}] /\ meter = [m \in Meters |-> {}]
    /\ look \in Looks \cup {NoLook}
    /\ instant = "unknown"
    /\ key = [look |-> NoLook, last |-> FALSE]
    /\ picture = [look |-> NoLook, whole |-> FALSE]

ScreenNext ==
    \/ \E size \in Sizes, raceOn \in BOOLEAN, v \in Values, again \in BOOLEAN, sampled \in BOOLEAN :
          OnBinary(size, raceOn, v, again, sampled)
    \/ \E size \in Sizes, again \in BOOLEAN : OnBadPacket(size, again)
    \/ Reset
    \/ Refresh
    \/ Redraw
    \/ \E l \in Looks \cup {NoLook} : Relook(l)

ScreenSpec == ScreenInit /\ [][ScreenNext]_screen
-----------------------------------------------------------------------------
(* What the user sees of the rows. *)
Shown == {r \in Rows : r.panel \notin hidden /\ r.need \notin hidden}

(* After each refresh a row on display says what the newest packet says,   *)
(* and never what an older packet of another format left in the object     *)
(* (DESIGN.md: panels show or hide by what the source provides).           *)
RowsAreFresh ==
    [][Refresh =>
        \A r \in Shown' :
            /\ t.size # 0 /\ r.reads \in Sections => Has(t, r.reads)
            /\ r.reads = "temperature" /\ ~Has(t, "dash") => text'[r] = {}
            /\ r.reads \in Sections => text'[r] = {t.of[r.reads]}]_screen

(* However slowly a value creeps, a meter on display is never a whole step *)
(* off once it was refreshed.                                              *)
MetersDoNotDrift ==
    [][Refresh =>
        \A m \in Shown' \cap Meters : \E x \in meter'[m] : ~Apart(x, t.of[m.reads])]_screen

(* No peak of the dash section without a packet since the last Reset that  *)
(* had one while the race was on: what an older packet left does not count.*)
PeaksAreEarned == maxDash > 0 => earned

(* A chart in view on the telemetry screen shows, after each of its frames,*)
(* all of the history in the look it has now, however often it was resized,*)
(* hidden or out of view before (telemetry/index.js:437-447).  What it may *)
(* lack, until a packet comes in another instant, is the sample of a packet*)
(* that came right after one of an unknown size, in the same instant: that *)
(* one was in the key already (main.js:160-167).                           *)
ChartsAreCurrent ==
    key = KeyNow /\ look # NoLook =>
        picture.look = look /\ (picture.whole \/ instant = "late")
===============================================================================
