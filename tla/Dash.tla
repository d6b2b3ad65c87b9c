-------------------------------- MODULE Dash --------------------------------
(***************************************************************************)
(* web/js/dash/index.js: the dash framework.  Each frame measures the      *)
(* window if it may have changed, brings the view of the telemetry up to   *)
(* date, and draws a style's layers, which are kept from one frame to the  *)
(* next, and its needles, which are not.                                   *)
(*                                                                         *)
(* What is eased, and the sweep of the needles, is left out: it is drawn   *)
(* by drawDynamic() alone.  A packet of 232 bytes has no dash section, and *)
(* so no power: it leaves the last one in the telemetry object (Forza).    *)
(***************************************************************************)
EXTENDS RpmScale, DashStyles

CONSTANTS
    Windows,   \* the sizes a window may have, with their safe areas
    NoWindow,  \* a canvas that is hidden or has no width or height
    Styles,    \* the styles in use
    NoStyle,   \* style is null before the first frame
    Packets,   \* what a packet may say: [car, engineMaxRpm, hasDash, power]
    NoCar      \* view.car before the first packet

ASSUME StylesAreStyles == Styles \subseteq DOMAIN StaticReads /\ NoStyle \notin Styles
ASSUME WindowsAreWindows == NoWindow \notin Windows
ASSUME PacketsAreNumbers ==
    \A p \in Packets :
        p.engineMaxRpm \in Nat /\ p.power \in Nat /\ p.hasDash \in BOOLEAN /\ p.car # NoCar
(* Else the scale would have more numbers than a dial has room for.        *)
ASSUME EnginesAreReal == \A p \in Packets : p.engineMaxRpm <= 54750

VARIABLES
    window,    \* the size of the canvas now
    dirty,     \* the window may have changed
    geo,       \* what measure() found
    chosen,    \* state.style
    style,     \* the style that was drawn last
    L,         \* its layout, a set of one, or none
    metric,    \* state.metric
    valid,     \* state.valid
    tel,       \* state.t: the last packet, and the last power
    view,      \* what the view keeps: metric, rpmMax, scale, car, power peak; and left, for
               \* history: the packet the peak was taken from had no power of its own
    cacheKey,  \* a set of one key, or none
    layers,    \* staticLayer, and glassLayer if hasGlass
    canvas     \* what the user sees below and above the needles

dash == <<window, dirty, geo, chosen, style, L, metric, valid, tel, view, cacheKey, layers, canvas>>

(* The fields that a layer may read, from what updateView() sets them.     *)
FieldsFor(m, max, major, minor, redline) ==
    [metric |-> m, speedUnit |-> IF m THEN "km/h" ELSE "mph", speedMax |-> IF m THEN 360 ELSE 200,
     boostUnit |-> IF m THEN "bar" ELSE "psi", boostMin |-> IF m THEN -1 ELSE -15,
     boostMax |-> IF m THEN 2 ELSE 30, powerUnit |-> IF m THEN "kW" ELSE "hp",
     tempUnit |-> IF m THEN "C" ELSE "F", distanceUnit |-> IF m THEN "km" ELSE "mi",
     max |-> max, major |-> major, minor |-> minor, redline |-> redline]
Fields(v) == FieldsFor(v.metric, v.scale.max, v.scale.major, v.scale.minor, v.scale.redline)

CreateTel == [car |-> NoCar, engineMaxRpm |-> 0, hasDash |-> FALSE, power |-> 0]

CreateView ==
    [metric |-> FALSE, rpmMax |-> 8000, scale |-> Scale(8000), car |-> NoCar, peak |-> 0, left |-> FALSE]

-----------------------------------------------------------------------------
(* invalidate(), for resize and orientationchange, on the dash or off it. *)
Resize(w) ==
    /\ w # window
    /\ window' = w /\ dirty' = TRUE
    /\ UNCHANGED <<geo, chosen, style, L, metric, valid, tel, view, cacheKey, layers, canvas>>

ApplyStyle(s) ==
    /\ chosen' = s
    /\ UNCHANGED <<window, dirty, geo, style, L, metric, valid, tel, view, cacheKey, layers, canvas>>

SwitchUnits ==
    /\ metric' = ~metric
    /\ UNCHANGED <<window, dirty, geo, chosen, style, L, valid, tel, view, cacheKey, layers, canvas>>

(* onBinary(), and the frame's verdict on it. *)
OnPacket(p) ==
    /\ tel' = [car |-> p.car, engineMaxRpm |-> p.engineMaxRpm, hasDash |-> p.hasDash,
               power |-> IF p.hasDash THEN p.power ELSE tel.power]
    /\ valid' = TRUE
    /\ UNCHANGED <<window, dirty, geo, chosen, style, L, metric, view, cacheKey, layers, canvas>>

NoData ==
    /\ valid /\ valid' = FALSE
    /\ UNCHANGED <<window, dirty, geo, chosen, style, L, metric, tel, view, cacheKey, layers, canvas>>

-----------------------------------------------------------------------------
(* Bug: the peak outlives its car. *)
PeakKept(v, car, watts) == IF watts > v.peak THEN watts ELSE v.peak
(* Power meter: the highest power seen of the current car. *)
Peak(v, car, watts) ==
    LET kept == IF car # v.car THEN 0 ELSE v.peak
    IN IF watts > kept THEN watts ELSE kept

(* The last known rpmMax and car are kept while no data arrive. *)
RpmMax == IF valid /\ tel.engineMaxRpm > 500 THEN tel.engineMaxRpm ELSE view.rpmMax
Car == IF valid THEN tel.car ELSE view.car
(* Whatever the format: nobody asks for hasDash here. *)
Watts == IF valid THEN tel.power ELSE 0

UpdateView ==
    view' = [metric |-> metric, rpmMax |-> RpmMax,
             scale |-> IF view.scale.rpmMax # RpmMax THEN Scale(RpmMax) ELSE view.scale,
             car |-> Car, peak |-> Peak(view, Car, Watts),
             left |-> IF Car # view.car \/ Watts > view.peak THEN Watts > 0 /\ ~tel.hasDash ELSE view.left]

-----------------------------------------------------------------------------
(* What drawStatic() and drawGlass() paint with this layout and view. *)
Painting(reads, l, v) == [layout |-> l, reads |-> [f \in reads |-> Fields(v)[f]]]
HasGlass(s) == s \in DOMAIN GlassReads
Layers(s, l, v) ==
    [below |-> Painting(StaticReads[s], l, v),
     above |-> IF HasGlass(s) THEN {Painting(GlassReads[s], l, v)} ELSE {}]

Layout(s, g) == [style |-> s, geo |-> g]

(* Bug: the units are forgotten. *)
KeyOfScale(s, v) == <<s, v.scale.max, v.scale.redline>>
Key(s, v) == <<s, v.metric, v.scale.max, v.scale.redline>>

(* A window without a size cannot be measured: the next frame tries again. *)
FrameSkipped == dirty /\ window = NoWindow /\ UNCHANGED dash

Measure == geo' = (IF dirty THEN window ELSE geo) /\ dirty' = FALSE

(* The layout is made again for another window and for another style, and  *)
(* the layers with it; else only for another key.                          *)
Frame ==
    /\ dirty => window # NoWindow
    /\ Measure
    /\ UpdateView
    /\ style' = chosen
    /\ LET kept == IF dirty \/ chosen # style THEN {} ELSE L
           cached == IF kept = {} THEN {} ELSE cacheKey
       IN /\ L' = IF kept = {} THEN {Layout(style', geo')} ELSE kept
          /\ cacheKey' = {Key(style', view')}
          /\ \E l \in L' : layers' = IF cached = cacheKey' THEN layers ELSE Layers(style', l, view')
    /\ canvas' = {layers'}
    /\ UNCHANGED <<window, chosen, metric, valid, tel>>

DashInit ==
    /\ window \in Windows \cup {NoWindow}
    /\ dirty = TRUE /\ geo = NoWindow
    /\ chosen \in Styles /\ style = NoStyle /\ L = {}
    /\ metric \in BOOLEAN
    /\ valid = FALSE /\ tel = CreateTel
    /\ view = CreateView
    /\ cacheKey = {} /\ layers = {} /\ canvas = {}

(* What the outside does: the window, the user, the game. *)
Outside ==
    \/ \E w \in Windows \cup {NoWindow} : Resize(w)
    \/ \E s \in Styles : ApplyStyle(s)
    \/ SwitchUnits
    \/ \E p \in Packets : OnPacket(p)
    \/ NoData

-----------------------------------------------------------------------------
(* The canvas shows the style of the last frame as it would be drawn from  *)
(* nothing in that frame's window, units and scale, through all the caches *)
(* and whatever changed while the dash was hidden or had no size; and the  *)
(* window was not missed: it is that frame's, or is measured in the next.  *)
CanvasIsCurrent ==
    /\ \A c \in canvas : c = Layers(style, Layout(style, geo), view)
    /\ dirty \/ geo = window

(* The power meter never measures one car by another's power, but for the  *)
(* power that an older packet left in the telemetry object when a frame    *)
(* took the peak from one without a dash section; and it is a power that   *)
(* some packet did report (dash/index.js:97-104, forza.js:99-106).         *)
PeakIsOfCar ==
    view.peak > 0 =>
        \E p \in Packets : p.hasDash /\ p.power = view.peak /\ (p.car = view.car \/ view.left)

(* Every tachometer can be read, for each engine, known or not. *)
ScaleIsReadable == Readable(view.scale) /\ view.scale.rpmMax = view.rpmMax
=============================================================================
