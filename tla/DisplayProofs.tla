---------------------------- MODULE DisplayProofs ---------------------------
(***************************************************************************)
(* For every set of windows, styles and packets: the rpm scale can be      *)
(* read, the cached layers are never stale, the power meter keeps cars     *)
(* apart whose packets have a dash section, and the bar and the wake lock  *)
(* are never lost.  On the telemetry screen rows are up to date, and so    *)
(* are charts but for late samples, no meter drifts and no peak comes from *)
(* a section that never came.                                              *)
(***************************************************************************)
EXTENDS Display, Screen, TLAPS

(* The scale's two roundings, up to a major step and to the nearest 250.   *)
LEMMA TopBounds ==
    ASSUME NEW m \in Nat
    PROVE  /\ Top(m) \in Nat /\ m + 250 <= Top(m) /\ Top(m) < m + 250 + Major(m)
           /\ Major(m) = 1000 => Top(m) <= 11000
           /\ Major(m) = 2000 => Top(m) <= 22000
           /\ m <= 54750 => Top(m) <= 11 * Major(m)
<1>1. CASE m <= 10000
  <2>1. Major(m) = 1000 /\ Top(m) = ((m + 1249) \div 1000) * 1000
    BY <1>1 DEF Major, Top
  <2> QED BY <1>1, <2>1
<1>2. CASE m > 10000 /\ m <= 20000
  <2>1. Major(m) = 2000 /\ Top(m) = ((m + 2249) \div 2000) * 2000
    BY <1>2 DEF Major, Top
  <2> QED BY <1>2, <2>1
<1>3. CASE m > 20000
  <2>1. Major(m) = 5000 /\ Top(m) = ((m + 5249) \div 5000) * 5000
    BY <1>3 DEF Major, Top
  <2> QED BY <1>3, <2>1
<1> QED BY <1>1, <1>2, <1>3

(* The redline is 375 rpm or more below the engine's highest, and nearly a *)
(* tenth below that of a fast one.                                         *)
LEMMA RedlineBounds ==
    ASSUME NEW m \in Nat, m > 500
    PROVE  Redline(m) \in Nat /\ 100 * Redline(m) <= 96 * m
<1>1. CASE m < 5000
  <2>1. Redline(m) = 250 * ((10 * m - 3750) \div 2500)
    BY <1>1 DEF Redline
  <2> QED BY <1>1, <2>1
<1>2. CASE m >= 5000
  <2>1. Redline(m) = 250 * ((9 * m + 1250) \div 2500)
    BY <1>2 DEF Redline
  <2> QED BY <1>2, <2>1
<1> QED BY <1>1, <1>2

LEMMA ScaleReadable ==
    ASSUME NEW m \in Nat, m > 500, m <= 54750
    PROVE  Readable(Scale(m))
BY TopBounds, RedlineBounds DEF Readable, Scale

(* Where the step grows the top grows, too, so the top tells the step.     *)
LEMMA TopTellsMajor ==
    ASSUME NEW m \in Nat, NEW n \in Nat, Top(m) = Top(n)
    PROVE  Major(m) = Major(n)
<1>1. \A k \in Nat : Major(k) = IF k <= 10000 THEN 1000 ELSE IF k <= 20000 THEN 2000 ELSE 5000
  BY DEF Major
<1>2. \A k \in Nat : k + 250 <= Top(k) /\ Top(k) \in Nat /\ (k <= 10000 => Top(k) <= 11000)
                     /\ (k <= 20000 => Top(k) <= 22000)
  BY TopBounds, <1>1
<1>3. \A k \in Nat : k > 10000 => Top(k) > 11000
  <2> SUFFICES ASSUME NEW k \in Nat, k > 10000 PROVE Top(k) > 11000
    OBVIOUS
  <2>1. CASE k <= 20000
    <3>1. Top(k) = ((k + 2249) \div 2000) * 2000
      BY <2>1 DEF Major, Top
    <3> QED BY <3>1
  <2>2. CASE k > 20000
    BY <2>2, <1>2
  <2> QED BY <2>1, <2>2
<1>4. \A k \in Nat : k > 20000 => Top(k) > 22000
  <2> SUFFICES ASSUME NEW k \in Nat, k > 20000 PROVE Top(k) > 22000
    OBVIOUS
  <2>1. Top(k) = ((k + 5249) \div 5000) * 5000
    BY DEF Major, Top
  <2> QED BY <2>1
<1> QED BY <1>1, <1>2, <1>3, <1>4

-----------------------------------------------------------------------------
(* A view whose scale is that of its engine.                               *)
ViewOK(v) ==
    /\ v.metric \in BOOLEAN
    /\ v.rpmMax \in Nat /\ v.rpmMax > 500 /\ v.rpmMax <= 54750
    /\ v.scale = Scale(v.rpmMax)

(* Two views with one key have the same fields: the major step, which the  *)
(* key does not have, follows from the top, and all units from one flag.   *)
LEMMA KeyTellsFields ==
    ASSUME NEW s, NEW v, NEW w, ViewOK(v), ViewOK(w), Key(s, v) = Key(s, w)
    PROVE  Fields(v) = Fields(w)
<1>1. v.metric = w.metric /\ v.scale.max = w.scale.max /\ v.scale.redline = w.scale.redline
  BY DEF Key
<1>6. \A m : /\ Scale(m).max = Top(m) /\ Scale(m).major = Major(m)
             /\ Scale(m).minor = Major(m) \div 2
  BY DEF Scale
<1>2. /\ v.scale.max = Top(v.rpmMax) /\ v.scale.major = Major(v.rpmMax)
      /\ v.scale.minor = Major(v.rpmMax) \div 2
  BY <1>6 DEF ViewOK
<1>3. /\ w.scale.max = Top(w.rpmMax) /\ w.scale.major = Major(w.rpmMax)
      /\ w.scale.minor = Major(w.rpmMax) \div 2
  BY <1>6 DEF ViewOK
<1>4. Major(v.rpmMax) = Major(w.rpmMax)
  <2>1. v.rpmMax \in Nat /\ w.rpmMax \in Nat
    BY DEF ViewOK
  <2>2. Top(v.rpmMax) = Top(w.rpmMax)
    BY <1>1, <1>2, <1>3
  <2> QED BY <2>1, <2>2, TopTellsMajor
<1>5. v.scale.major = w.scale.major /\ v.scale.minor = w.scale.minor
  BY <1>2, <1>3, <1>4
<1> QED BY <1>1, <1>5 DEF Fields

(* So they have the same layers, in every style and layout.                *)
LEMMA KeyTellsLayers ==
    ASSUME NEW s, NEW l, NEW v, NEW w, ViewOK(v), ViewOK(w), Key(s, v) = Key(s, w)
    PROVE  Layers(s, l, v) = Layers(s, l, w)
<1>1. Fields(v) = Fields(w)
  BY KeyTellsFields
<1>2. ASSUME NEW reads PROVE Painting(reads, l, v) = Painting(reads, l, w)
  BY <1>1 DEF Painting
<1> QED BY <1>2 DEF Layers

(* What the telemetry object holds: the car and the engine of a packet,    *)
(* when it is valid, and a power that some packet reported, the newest one *)
(* if that has a dash section.                                             *)
TelOK ==
    /\ tel.engineMaxRpm \in Nat /\ tel.engineMaxRpm <= 54750
    /\ tel.power \in Nat
    /\ tel.power > 0 =>
          \E p \in Packets : p.hasDash /\ p.power = tel.power /\ (p.car = tel.car \/ ~tel.hasDash)
    /\ tel.car \in {NoCar} \cup {p.car : p \in Packets}

(* The caches are empty, or they are what the last frame would draw.       *)
NothingDrawn == L = {} /\ canvas = {} /\ dirty = TRUE
LastDrawn ==
    /\ L = {Layout(style, geo)}
    /\ cacheKey = {Key(style, view)}
    /\ layers = Layers(style, Layout(style, geo), view)
    /\ canvas = {layers}

DashInv ==
    /\ dirty \in BOOLEAN /\ metric \in BOOLEAN /\ TelOK
    /\ ViewOK(view)
    /\ NothingDrawn \/ LastDrawn
    /\ dirty \/ geo = window

(* A packet fills the object, with its own power or the one before.        *)
LEMMA PacketTel ==
    ASSUME TelOK, NEW p \in Packets, OnPacket(p)
    PROVE  TelOK'
<1>1. /\ p.engineMaxRpm \in Nat /\ p.engineMaxRpm <= 54750 /\ p.power \in Nat /\ p.hasDash \in BOOLEAN
  BY PacketsAreNumbers, EnginesAreReal
<1>2. /\ tel'.car = p.car /\ tel'.engineMaxRpm = p.engineMaxRpm /\ tel'.hasDash = p.hasDash
      /\ tel'.power = IF p.hasDash THEN p.power ELSE tel.power
  BY DEF OnPacket
<1> QED BY <1>1, <1>2 DEF TelOK

LEMMA DashInvInit == Init => DashInv
<1> SUFFICES ASSUME Init PROVE DashInv
  OBVIOUS
<1>1. ViewOK(CreateView)
  BY DEF ViewOK, CreateView
<1>2. TelOK
  BY DEF Init, DashInit, CreateTel, TelOK
<1> QED BY <1>1, <1>2 DEF Init, DashInit, DashInv, NothingDrawn

LEMMA UpdateViewOK ==
    ASSUME DashInv, UpdateView
    PROVE  ViewOK(view')
<1>1. RpmMax \in Nat /\ RpmMax > 500 /\ RpmMax <= 54750
  BY DEF RpmMax, DashInv, TelOK, ViewOK
<1>2. (IF view.scale.rpmMax # RpmMax THEN Scale(RpmMax) ELSE view.scale) = Scale(RpmMax)
  BY DEF DashInv, ViewOK, Scale
<1>3. view'.metric = metric /\ view'.rpmMax = RpmMax /\ view'.scale = Scale(RpmMax)
  BY <1>2 DEF UpdateView
<1> QED BY <1>1, <1>3 DEF ViewOK, DashInv

LEMMA FrameInv ==
    ASSUME DashInv, Frame
    PROVE  DashInv'
<1> DEFINE kept == IF dirty \/ chosen # style THEN {} ELSE L
<1> DEFINE cached == IF kept = {} THEN {} ELSE cacheKey
<1>1. ViewOK(view')
  BY UpdateViewOK DEF Frame
<1>2. /\ L' = IF kept = {} THEN {Layout(style', geo')} ELSE kept
      /\ cacheKey' = {Key(style', view')}
      /\ \E l \in L' : layers' = IF cached = cacheKey' THEN layers ELSE Layers(style', l, view')
      /\ canvas' = {layers'} /\ style' = chosen
      /\ geo' = (IF dirty THEN window ELSE geo) /\ dirty' = FALSE
      /\ window' = window /\ metric' = metric /\ tel' = tel
  BY DEF Frame, Measure
<1>3. geo' = window' /\ TelOK'
  BY <1>2 DEF DashInv, TelOK
<1>4. CASE kept = {}
  <2>1. cached = {} /\ L' = {Layout(style', geo')} /\ cached # cacheKey'
    BY <1>2, <1>4
  <2>2. layers' = Layers(style', Layout(style', geo'), view')
    BY <1>2, <2>1
  <2>3. LastDrawn'
    BY <1>2, <2>1, <2>2 DEF LastDrawn
  <2> QED BY <1>1, <1>2, <1>3, <2>3 DEF DashInv
<1>5. CASE kept # {}
  <2>1. ~dirty /\ chosen = style /\ kept = L /\ L # {} /\ cached = cacheKey
    BY <1>5
  <2>2. LastDrawn
    BY <2>1 DEF DashInv, NothingDrawn
  <2>3. style' = style /\ geo' = geo /\ L' = {Layout(style', geo')}
    BY <1>2, <2>1, <2>2 DEF LastDrawn
  <2>4. cacheKey = {Key(style, view)} /\ layers = Layers(style, Layout(style, geo), view)
    BY <2>2 DEF LastDrawn
  <2>5. CASE cached = cacheKey'
    <3>1. layers' = layers /\ Key(style, view) = Key(style, view')
      BY <1>2, <2>1, <2>3, <2>4, <2>5
    <3>2. ViewOK(view)
      BY DEF DashInv
    <3>3. Layers(style, Layout(style, geo), view) = Layers(style, Layout(style, geo), view')
      BY <1>1, <3>1, <3>2, KeyTellsLayers
    <3>4. layers' = Layers(style', Layout(style', geo'), view')
      BY <2>3, <2>4, <3>1, <3>3
    <3> QED BY <1>1, <1>2, <1>3, <2>3, <3>4 DEF DashInv, LastDrawn
  <2>6. CASE cached # cacheKey'
    <3>1. layers' = Layers(style', Layout(style', geo'), view')
      BY <1>2, <2>3, <2>6
    <3> QED BY <1>1, <1>2, <1>3, <2>3, <3>1 DEF DashInv, LastDrawn
  <2> QED BY <2>5, <2>6
<1> QED BY <1>4, <1>5

LEMMA DashInvNext == DashInv /\ [Next]_vars => DashInv'
<1> SUFFICES ASSUME DashInv, [Next]_vars PROVE DashInv'
  OBVIOUS
<1>1. CASE DashFrame
  <2>1. CASE Frame
    BY <2>1, FrameInv
  <2>2. CASE FrameSkipped
    BY <2>2 DEF FrameSkipped, dash, DashInv, TelOK, NothingDrawn, LastDrawn
  <2> QED BY <1>1, <2>1, <2>2 DEF DashFrame
<1>2. CASE Outside
  <2> USE DEF DashInv, NothingDrawn, LastDrawn
  <2>a. tel' = tel => TelOK'
    BY DEF TelOK
  <2>1. ASSUME NEW w, Resize(w) PROVE DashInv'
    BY <2>a, <2>1 DEF Resize
  <2>2. ASSUME NEW s, ApplyStyle(s) PROVE DashInv'
    BY <2>a, <2>2 DEF ApplyStyle
  <2>3. CASE SwitchUnits
    BY <2>a, <2>3 DEF SwitchUnits
  <2>4. ASSUME NEW p \in Packets, OnPacket(p) PROVE DashInv'
    BY <2>4, PacketTel DEF OnPacket
  <2>5. CASE NoData
    BY <2>a, <2>5 DEF NoData
  <2> QED BY <1>2, <2>1, <2>2, <2>3, <2>4, <2>5 DEF Outside
<1>3. CASE UNCHANGED dash
  BY <1>3 DEF dash, DashInv, TelOK, NothingDrawn, LastDrawn
<1> QED BY <1>1, <1>2, <1>3 DEF Next, vars

LEMMA DashInvAlways == Spec => []DashInv
BY DashInvInit, DashInvNext, PTL DEF Spec

(* The cached layers are never stale, whatever six styles or more read of  *)
(* the view, and no resize is missed (dash/index.js:221-265).              *)
THEOREM CanvasIsAlwaysCurrent == Spec => []CanvasIsCurrent
<1>1. DashInv => CanvasIsCurrent
  BY DEF DashInv, NothingDrawn, LastDrawn, CanvasIsCurrent
<1> QED BY <1>1, DashInvAlways, PTL

(* The scale on display can be read, for every engine up to 54750 rpm, and *)
(* is that of the view's engine (dash/common.js:24-30).                    *)
THEOREM ScaleIsAlwaysReadable == Spec => []ScaleIsReadable
<1>1. DashInv => ScaleIsReadable
  BY ScaleReadable DEF DashInv, ViewOK, ScaleIsReadable, Scale
<1> QED BY <1>1, DashInvAlways, PTL

-----------------------------------------------------------------------------
PeakInv == TelOK /\ view.peak \in Nat /\ PeakIsOfCar

LEMMA PeakInvFrame ==
    ASSUME PeakInv, UpdateView
    PROVE  view'.peak \in Nat /\ PeakIsOfCar'
<1> DEFINE taken == Car # view.car \/ Watts > view.peak
<1>1. /\ view'.car = Car /\ view'.peak = Peak(view, Car, Watts)
      /\ view'.left = IF taken THEN Watts > 0 /\ ~tel.hasDash ELSE view.left
  BY Zenon DEF UpdateView
<1>2. Watts \in Nat /\ view.peak \in Nat
  BY DEF Watts, PeakInv, TelOK
<1>3. CASE taken
  <2>1. view'.peak = Watts
    BY <1>1, <1>2, <1>3 DEF Peak
  <2>2. ASSUME Watts > 0
        PROVE  \E p \in Packets : p.hasDash /\ p.power = Watts /\ (p.car = Car \/ ~tel.hasDash)
    BY <2>2 DEF Watts, Car, PeakInv, TelOK
  <2>3. Watts > 0 => (view'.left <=> ~tel.hasDash)
    BY <1>1, <1>3
  <2> QED BY <1>1, <1>2, <2>1, <2>2, <2>3 DEF PeakIsOfCar
<1>4. CASE ~taken
  <2>1. view'.peak = view.peak /\ view'.car = view.car /\ view'.left = view.left
    BY <1>1, <1>2, <1>4 DEF Peak
  <2> QED BY <1>2, <2>1 DEF PeakIsOfCar, PeakInv
<1> QED BY <1>3, <1>4

(* The power meter never measures one car by another's power, whatever     *)
(* packets and frames come in which order, except by the power that a      *)
(* frame took from a packet without a dash section, which an older packet  *)
(* had reported (dash/index.js:97-104).                                    *)
THEOREM PeakIsAlwaysOfCar == Spec => []PeakIsOfCar
<1>1. Init => PeakInv
  BY DashInvInit DEF Init, DashInit, CreateView, DashInv, PeakInv, PeakIsOfCar
<1>2. PeakInv /\ [Next]_vars => PeakInv'
  <2> SUFFICES ASSUME PeakInv, [Next]_vars PROVE PeakInv'
    OBVIOUS
  <2>1. CASE view' = view /\ TelOK'
    BY <2>1 DEF PeakInv, PeakIsOfCar
  <2>2. CASE Frame
    <3>1. TelOK'
      BY <2>2 DEF Frame, PeakInv, TelOK
    <3> QED BY <2>2, <3>1, PeakInvFrame DEF Frame, PeakInv
  <2>3. CASE UNCHANGED dash
    BY <2>1, <2>3 DEF dash, PeakInv, TelOK
  <2>4. CASE Outside
    <3>1. ASSUME NEW p \in Packets, OnPacket(p) PROVE view' = view /\ TelOK'
      BY <3>1, PacketTel DEF PeakInv, OnPacket
    <3>2. ASSUME (\E w \in Windows \cup {NoWindow} : Resize(w)) \/ (\E s \in Styles : ApplyStyle(s))
                 \/ SwitchUnits \/ NoData
          PROVE  view' = view /\ TelOK'
      BY <3>2 DEF Resize, ApplyStyle, SwitchUnits, NoData, PeakInv, TelOK
    <3> QED BY <2>1, <2>4, <3>1, <3>2 DEF Outside
  <2> QED BY <2>2, <2>3, <2>4 DEF Next, vars, DashFrame, FrameSkipped
<1>3. PeakInv => PeakIsOfCar
  BY DEF PeakInv
<1> QED BY <1>1, <1>2, <1>3, PTL DEF Spec

-----------------------------------------------------------------------------
(* The states of the bar, and of the wake lock: idle, asked for, held.     *)
BarInv ==
    \/ route = "telemetry" /\ bar = TRUE /\ timers = 0
    \/ route = "dash" /\ bar = TRUE /\ timers = 1
    \/ route = "dash" /\ bar = FALSE /\ timers = 0
Idle ==
    /\ wakeLock = FALSE /\ wakePending = FALSE /\ requests = 0 /\ locks = 0
    /\ visible = FALSE \/ (visible = TRUE /\ answer \in {"refused", "taken back"})
Asked ==
    /\ wakeLock = FALSE /\ wakePending = TRUE /\ requests = 1 /\ locks = 0
    /\ visible \in BOOLEAN
Held ==
    wakeLock = TRUE /\ wakePending = FALSE /\ requests = 0 /\ locks = 1 /\ visible = TRUE
WakeInv == Idle \/ Asked \/ Held

LEMMA Counts ==
    /\ Idle => requests = 0 /\ locks = 0
    /\ Asked => requests = 1 /\ locks = 0
    /\ Held => requests = 0 /\ locks = 1
BY Zenon DEF Idle, Asked, Held

LEMMA ShowBarInv ==
    ASSUME route' \in Routes, ShowBar
    PROVE  BarInv'
BY DEF Routes, ShowBar, TimersLeft, BarInv

LEMMA BarInvNext == BarInv /\ [ControlsNext]_<<controls, wake>> => BarInv'
<1> SUFFICES ASSUME BarInv, [ControlsNext]_<<controls, wake>> PROVE BarInv'
  OBVIOUS
<1>1. route \in Routes
  BY DEF BarInv, Routes
<1>2. ASSUME NEW r \in Routes, SetRoute(r) PROVE BarInv'
  BY <1>2, ShowBarInv DEF SetRoute
<1>3. CASE BarHides
  BY <1>3 DEF BarHides, BarInv
<1>4. CASE TouchBar \/ TapDash
  BY <1>1, <1>4, ShowBarInv DEF TouchBar, TapDash
<1>5. CASE UNCHANGED controls
  BY <1>5 DEF controls, BarInv
<1>6. CASE Hide \/ Show \/ Granted \/ Refused \/ TakenBack
  BY <1>5, <1>6 DEF Hide, Show, Granted, Refused, TakenBack
<1> QED
  BY <1>2, <1>3, <1>4, <1>5, <1>6 DEF ControlsNext

(* A request is made by an idle page in front, and by no other.            *)
LEMMA RequestInv ==
    ASSUME RequestWakeLock, wakeLock' = wakeLock, locks' = locks,
           \/ Idle /\ visible' = TRUE
           \/ Asked /\ visible' \in BOOLEAN
           \/ Held /\ visible' = TRUE
    PROVE  WakeInv'
<1>1. CASE Idle /\ visible' = TRUE
  <2>1. wakeLock = FALSE /\ wakePending = FALSE /\ requests = 0 /\ locks = 0
    BY <1>1 DEF Idle
  <2>2. MayAsk
    BY <1>1, <2>1 DEF MayAsk
  <2>3. wakePending' = TRUE
    BY <2>2, Zenon DEF RequestWakeLock
  <2>4. requests' = 1
    BY <2>1, <2>2 DEF RequestWakeLock
  <2>5. wakeLock' = FALSE /\ locks' = 0
    BY <2>1, Zenon
  <2> QED BY <1>1, <2>3, <2>4, <2>5, Zenon DEF WakeInv, Asked
<1>2. CASE Asked /\ visible' \in BOOLEAN
  <2>1. wakeLock = FALSE /\ wakePending = TRUE /\ requests = 1 /\ locks = 0
    BY <1>2 DEF Asked
  <2>2. ~MayAsk
    BY <2>1 DEF MayAsk
  <2>3. wakePending' = TRUE
    BY <2>1, Zenon DEF RequestWakeLock
  <2>4. requests' = 1
    BY <2>1, <2>2 DEF RequestWakeLock
  <2>5. wakeLock' = FALSE /\ locks' = 0
    BY <2>1, Zenon
  <2> QED BY <1>2, <2>3, <2>4, <2>5, Zenon DEF WakeInv, Asked
<1>3. CASE Held /\ visible' = TRUE
  <2>1. wakeLock = TRUE /\ wakePending = FALSE /\ requests = 0 /\ locks = 1
    BY <1>3 DEF Held
  <2>2. ~MayAsk
    BY <2>1 DEF MayAsk
  <2>3. wakePending' = FALSE
    BY <2>1, <2>2, Zenon DEF RequestWakeLock
  <2>4. requests' = 0
    BY <2>1, <2>2 DEF RequestWakeLock
  <2>5. wakeLock' = TRUE /\ locks' = 1
    BY <2>1, Zenon
  <2> QED BY <1>3, <2>3, <2>4, <2>5, Zenon DEF WakeInv, Held
<1> QED BY <1>1, <1>2, <1>3

LEMMA WakeInvNext == WakeInv /\ [ControlsNext]_<<controls, wake>> => WakeInv'
<1> SUFFICES ASSUME WakeInv, [ControlsNext]_<<controls, wake>> PROVE WakeInv'
  OBVIOUS
<1>1. CASE UNCHANGED wake
  BY <1>1 DEF wake, WakeInv, Idle, Asked, Held
<1>2. CASE (\E r \in Routes : SetRoute(r)) \/ BarHides \/ TouchBar
  BY <1>1, <1>2 DEF SetRoute, BarHides, TouchBar
<1>3. CASE TapDash
  <2>1. visible' = TRUE /\ visible = TRUE /\ wakeLock' = wakeLock /\ locks' = locks /\ RequestWakeLock
    BY <1>3 DEF TapDash, WakeInv, Idle, Asked, Held
  <2> QED BY <2>1, RequestInv DEF WakeInv
<1>4. CASE Hide
  <2>1. visible' = FALSE /\ wakeLock' = FALSE /\ locks' = 0 /\ RequestWakeLock
    BY <1>4 DEF Hide
  <2>2. ~MayAsk
    BY <2>1 DEF MayAsk
  <2>3. requests' = requests
    BY <1>4, <2>1, <2>2, Counts DEF Hide, RequestWakeLock, WakeInv
  <2>4. CASE Idle \/ Held
    BY <2>1, <2>2, <2>3, <2>4, Zenon DEF RequestWakeLock, WakeInv, Idle, Held
  <2>5. CASE Asked
    BY <2>1, <2>2, <2>3, <2>5, Zenon DEF RequestWakeLock, WakeInv, Asked
  <2> QED BY <2>4, <2>5 DEF WakeInv
<1>5. CASE Show
  <2>1. visible # TRUE /\ visible' = TRUE /\ wakeLock' = wakeLock /\ locks' = locks /\ RequestWakeLock
    BY <1>5 DEF Show
  <2>2. Idle \/ Asked
    BY <2>1 DEF WakeInv, Held
  <2> QED BY <2>1, <2>2, RequestInv
<1>6. CASE Granted
  <2>1. requests > 0 /\ visible
    BY <1>6 DEF Granted
  <2>2. Asked
    BY <2>1, Counts DEF WakeInv
  <2>3. requests = 1 /\ locks = 0 /\ visible = TRUE
    BY <2>1, <2>2, Zenon DEF Asked
  <2>4. requests' = requests - 1 /\ locks' = locks + 1
    BY <1>6, Zenon DEF Granted
  <2>5. requests' = 0 /\ locks' = 1
    BY <2>3, <2>4
  <2> QED BY <1>6, <2>3, <2>5, Zenon DEF Granted, WakeInv, Held
<1>7. CASE Refused
  <2>1. requests > 0
    BY <1>7 DEF Refused
  <2>2. Asked
    BY <2>1, Counts DEF WakeInv
  <2>3. requests' = requests - 1
    BY <1>7, Zenon DEF Refused
  <2>5. requests' = 0
    BY <2>2, <2>3, Counts
  <2>4. visible = TRUE \/ visible = FALSE
    BY <2>2 DEF Asked
  <2> QED BY <1>7, <2>2, <2>4, <2>5, Zenon DEF Refused, WakeInv, Idle, Asked
<1>8. CASE TakenBack
  <2>1. locks > 0
    BY <1>8 DEF TakenBack
  <2>2. Held
    BY <2>1, Counts DEF WakeInv
  <2>3. locks' = locks - 1
    BY <1>8, Zenon DEF TakenBack
  <2>4. locks' = 0
    BY <2>2, <2>3, Counts
  <2> QED BY <1>8, <2>2, <2>4, Zenon DEF TakenBack, WakeInv, Idle, Held
<1> QED
  BY <1>1, <1>2, <1>3, <1>4, <1>5, <1>6, <1>7, <1>8 DEF ControlsNext

LEMMA ControlsInvAlways == Spec => [](BarInv /\ WakeInv)
<1>1. Init => BarInv /\ WakeInv
  BY DEF Init, ControlsInit, Routes, BarInv, WakeInv, Idle, Asked, Held
<1>2. [Next]_vars => [ControlsNext]_<<controls, wake>>
  BY DEF Next, vars, DashFrame
<1> QED BY <1>1, <1>2, BarInvNext, WakeInvNext, PTL DEF Spec

(* The bar never leaves the telemetry screen and never stays on the dash   *)
(* without a timer, in whatever order taps, links and timers come          *)
(* (main.js:42-74).                                                        *)
THEOREM BarAlwaysComesAndGoes == Spec => []BarComesAndGoes
<1>1. BarInv => BarComesAndGoes
  BY DEF BarInv, BarComesAndGoes
<1> QED BY <1>1, ControlsInvAlways, PTL

(* One lock or one request, and the page knows of it (main.js:209-220).    *)
THEOREM AlwaysOneWakeLock == Spec => []OneWakeLock
<1>1. WakeInv => OneWakeLock
  <2>1. CASE Idle
    <3>1. wakeLock = FALSE /\ wakePending = FALSE
      BY <2>1, Zenon DEF Idle
    <3>2. locks + requests <= 1 /\ ~(locks = 1) /\ ~(requests = 1)
      BY <2>1, Counts
    <3> QED BY <3>1, <3>2, Zenon DEF OneWakeLock
  <2>2. CASE Asked
    <3>1. wakeLock = FALSE /\ wakePending = TRUE
      BY <2>2, Zenon DEF Asked
    <3>2. locks + requests <= 1 /\ ~(locks = 1) /\ requests = 1
      BY <2>2, Counts
    <3> QED BY <3>1, <3>2, Zenon DEF OneWakeLock
  <2>3. CASE Held
    <3>1. wakeLock = TRUE /\ wakePending = FALSE
      BY <2>3, Zenon DEF Held
    <3>2. locks + requests <= 1 /\ locks = 1 /\ ~(requests = 1)
      BY <2>3, Counts
    <3> QED BY <3>1, <3>2, Zenon DEF OneWakeLock
  <2> QED BY <2>1, <2>2, <2>3 DEF WakeInv
<1> QED BY <1>1, ControlsInvAlways, PTL

(* A page in front is awake, has asked, or was told no (main.js:222).      *)
THEOREM AlwaysAwakeOrRefused == Spec => []AwakeOrRefused
<1>1. WakeInv => AwakeOrRefused
  BY DEF WakeInv, Idle, Asked, Held, AwakeOrRefused
<1> QED BY <1>1, ControlsInvAlways, PTL
-----------------------------------------------------------------------------
Answers == {"none", "granted", "refused", "taken back"}
ControlsTypeOK ==
    /\ route \in Routes /\ bar \in BOOLEAN /\ timers \in {0, 1}
    /\ visible \in BOOLEAN /\ wakeLock \in BOOLEAN /\ wakePending \in BOOLEAN
    /\ requests \in {0, 1} /\ locks \in {0, 1} /\ answer \in Answers

(* The types, and that nothing is laid out or drawn for a window that      *)
(* could not be measured.                                                  *)
DashTypeOK ==
    /\ window \in Windows \cup {NoWindow} /\ geo \in Windows \cup {NoWindow}
    /\ dirty \in BOOLEAN /\ metric \in BOOLEAN /\ valid \in BOOLEAN
    /\ chosen \in Styles /\ style \in Styles \cup {NoStyle}
    /\ TelOK /\ view.peak \in Nat
    /\ view.car \in {NoCar} \cup {p.car : p \in Packets}
    /\ L # {} \/ canvas # {} => style \in Styles /\ geo \in Windows
    /\ L = {} => dirty = TRUE /\ canvas = {}

(* A frame measures before it lays out: what it keeps for a window that    *)
(* has not changed was made for a window that had a size.                  *)
LEMMA FrameTypes ==
    ASSUME DashTypeOK, Frame
    PROVE  DashTypeOK'
<1>1. /\ dirty = TRUE => window \in Windows
      /\ geo' = (IF dirty THEN window ELSE geo) /\ dirty' = FALSE
      /\ style' = chosen /\ UNCHANGED <<window, chosen, metric, valid, tel>>
  BY DEF Frame, Measure, DashTypeOK
<1>5. TelOK'
  BY <1>1 DEF DashTypeOK, TelOK
<1>2. geo' \in Windows
  <2>1. CASE dirty = TRUE
    BY <1>1, <2>1
  <2>2. CASE dirty = FALSE
    BY <1>1, <2>2 DEF DashTypeOK
  <2> QED BY <2>1, <2>2 DEF DashTypeOK
<1>3. L' # {}
  BY DEF Frame
<1>4. view'.peak \in Nat /\ view'.car \in {NoCar} \cup {p.car : p \in Packets}
  <2>1. view'.car = Car /\ view'.peak = Peak(view, Car, Watts)
    BY DEF Frame, UpdateView
  <2>2. Watts \in Nat /\ view.peak \in Nat
    BY DEF Watts, DashTypeOK, TelOK
  <2>3. Car \in {NoCar} \cup {p.car : p \in Packets}
    BY DEF Car, DashTypeOK, TelOK
  <2> QED BY <2>1, <2>2, <2>3 DEF Peak
<1> QED BY <1>1, <1>2, <1>3, <1>4, <1>5 DEF DashTypeOK

LEMMA DashTypesNext == DashTypeOK /\ [Next]_vars => DashTypeOK'
<1> SUFFICES ASSUME DashTypeOK, [Next]_vars PROVE DashTypeOK'
  OBVIOUS
<1>1. CASE DashFrame
  <2>1. CASE Frame
    BY <2>1, FrameTypes
  <2>2. CASE FrameSkipped
    BY <2>2 DEF FrameSkipped, dash, DashTypeOK, TelOK
  <2> QED BY <1>1, <2>1, <2>2 DEF DashFrame
<1>2. CASE Outside
  <2>a. TelOK /\ (tel' = tel => TelOK')
    BY DEF DashTypeOK, TelOK
  <2>1. ASSUME NEW w \in Windows \cup {NoWindow}, Resize(w) PROVE DashTypeOK'
    BY <2>a, <2>1 DEF Resize, DashTypeOK
  <2>2. ASSUME NEW s \in Styles, ApplyStyle(s) PROVE DashTypeOK'
    BY <2>a, <2>2 DEF ApplyStyle, DashTypeOK
  <2>3. CASE SwitchUnits
    BY <2>a, <2>3 DEF SwitchUnits, DashTypeOK
  <2>4. ASSUME NEW p \in Packets, OnPacket(p) PROVE DashTypeOK'
    BY <2>a, <2>4, PacketTel DEF OnPacket, DashTypeOK
  <2>5. CASE NoData
    BY <2>a, <2>5 DEF NoData, DashTypeOK
  <2> QED BY <1>2, <2>1, <2>2, <2>3, <2>4, <2>5 DEF Outside
<1>3. CASE UNCHANGED dash
  BY <1>3 DEF dash, DashTypeOK, TelOK
<1> QED BY <1>1, <1>2, <1>3 DEF Next, vars

(* The system's answers are answers. *)
LEMMA AnswersNext ==
    ASSUME answer \in Answers, [ControlsNext]_<<controls, wake>>
    PROVE  answer' \in Answers
<1>1. CASE UNCHANGED wake
  BY <1>1 DEF wake
<1>2. CASE TapDash \/ Hide \/ Show \/ Granted \/ Refused \/ TakenBack
  BY <1>2 DEF TapDash, Hide, Show, Granted, Refused, TakenBack, Answers
<1>3. ASSUME (\E r \in Routes : SetRoute(r)) \/ BarHides \/ TouchBar PROVE UNCHANGED wake
  BY <1>3 DEF SetRoute, BarHides, TouchBar
<1> QED BY <1>1, <1>2, <1>3 DEF ControlsNext

(* The page and its dash keep their types, the bar has one timer at most,  *)
(* and no layout is made and nothing drawn for a window without a size     *)
(* (dash/index.js:166-191, 221-247).                                       *)
THEOREM DisplayTypeCorrect == Spec => [](ControlsTypeOK /\ DashTypeOK)
<1>1. Init => answer \in Answers /\ DashTypeOK
  <2> SUFFICES ASSUME Init PROVE answer \in Answers /\ DashTypeOK
    OBVIOUS
  <2>1. answer \in Answers
    BY DEF Init, ControlsInit, Answers
  <2>2. view.peak = 0 /\ view.car = NoCar
    BY DEF Init, DashInit, CreateView
  <2>3. L = {} /\ canvas = {} /\ dirty = TRUE
    BY DEF Init, DashInit
  <2>4. /\ window \in Windows \cup {NoWindow} /\ geo = NoWindow /\ metric \in BOOLEAN
        /\ valid = FALSE /\ chosen \in Styles /\ style = NoStyle /\ TelOK
    BY DashInvInit DEF Init, DashInit, DashInv
  <2>5. view.peak \in Nat
    BY <2>2
  <2>6. view.car \in {NoCar} \cup {p.car : p \in Packets}
    BY <2>2
  <2>7. dirty \in BOOLEAN /\ valid \in BOOLEAN
    BY <2>3, <2>4
  <2> QED BY <2>1, <2>3, <2>4, <2>5, <2>6, <2>7, Zenon DEF DashTypeOK
<1>2. BarInv /\ WakeInv /\ answer \in Answers => ControlsTypeOK
  <2> SUFFICES ASSUME BarInv, WakeInv, answer \in Answers PROVE ControlsTypeOK
    OBVIOUS
  <2>1. route \in Routes /\ bar \in BOOLEAN /\ timers \in {0, 1}
    BY DEF BarInv, Routes
  <2>2. visible \in BOOLEAN /\ wakeLock \in BOOLEAN /\ wakePending \in BOOLEAN
    BY DEF WakeInv, Idle, Asked, Held
  <2>3. requests \in {0, 1} /\ locks \in {0, 1}
    BY Counts DEF WakeInv
  <2> QED BY <2>1, <2>2, <2>3 DEF ControlsTypeOK
<1>3. [Next]_vars => [ControlsNext]_<<controls, wake>>
  BY DEF Next, vars, DashFrame
<1>4. answer \in Answers /\ [Next]_vars => (answer \in Answers)'
  BY <1>3, AnswersNext
<1> QED BY <1>1, <1>2, <1>4, ControlsInvAlways, DashTypesNext, PTL DEF Spec
-----------------------------------------------------------------------------
(***************************************************************************)
(* The telemetry screen.  Only packets of a known size are parsed, so what *)
(* the telemetry object has is told by its size; every meter shows what it *)
(* remembers; and a chart whose key is up to date is, too.                 *)
(***************************************************************************)
Parsed ==
    /\ t.size \in DOMAIN LAYOUTS \cup {0}
    /\ t.of \in [Sections -> Nat]

MetersInStep ==
    /\ frac \in [Meters -> SUBSET Nat]
    /\ meter = frac

DrawnAsKeyed ==
    key.last = TRUE /\ key.look # NoLook =>
        picture.look = key.look /\ (picture.whole = TRUE \/ instant = "late")

ChartTypeOK ==
    /\ key \in [look : Looks \cup {NoLook}, last : BOOLEAN]
    /\ picture \in [look : Looks \cup {NoLook}, whole : BOOLEAN]
    /\ look \in Looks \cup {NoLook} /\ instant \in {"unknown", "good", "late"}

ScreenTypeOK ==
    /\ Parsed /\ ChartTypeOK
    /\ maxDash \in Nat /\ earned \in BOOLEAN
    /\ hidden \subseteq Needs
    /\ text \in [Rows -> SUBSET Nat]

ScreenInv == ScreenTypeOK /\ MetersInStep /\ DrawnAsKeyed /\ PeaksAreEarned

(* Each known size, with its sections. *)
LEMMA KnownSizes ==
    /\ DOMAIN LAYOUTS = {324, 331, 311, 232}
    /\ \A size \in DOMAIN LAYOUTS : "sled" \in LAYOUTS[size] /\ LAYOUTS[size] \subseteq Sections
BY DEF LAYOUTS, Sections

(* A row reads the section every format has, or the one that it or its     *)
(* panel needs, but for the tires' heads; a meter always reads a section.  *)
Reading(r) ==
    /\ r.reads \in {"sled", r.panel, r.need} \cap Sections \/ (r.reads = "temperature" /\ r.meter # TRUE)

LEMMA RowFields ==
    \A p, n, s :
        /\ Plain(p, n, s).panel = p /\ Plain(p, n, s).need = n /\ Plain(p, n, s).reads = s
        /\ Metered(p, n, s).panel = p /\ Metered(p, n, s).need = n /\ Metered(p, n, s).reads = s
BY Zenon DEF Plain, Metered

LEMMA RowsReadWhatTheyNeed ==
    ASSUME NEW r \in Rows
    PROVE  Reading(r) /\ r.panel \in Needs /\ r.need \in Needs
<1>a. ASSUME NEW p, NEW n, NEW s \in {"sled", p, n} \cap Sections
      PROVE  Reading(Plain(p, n, s)) /\ Reading(Metered(p, n, s))
  <2>1. ASSUME NEW x, x.panel = p, x.need = n, x.reads = s PROVE Reading(x)
    BY <1>a, <2>1, Zenon DEF Reading
  <2>2. Reading(Plain(p, n, s))
    BY <2>1, RowFields
  <2>3. Reading(Metered(p, n, s))
    BY <2>1, RowFields
  <2> QED BY <2>2, <2>3
<1>b. Reading(Plain("", "", "temperature"))
  <2> DEFINE head == Plain("", "", "temperature")
  <2>1. head.reads = "temperature"
    BY Zenon DEF Plain
  <2>2. head.meter # TRUE
    BY Zenon DEF Plain
  <2> HIDE DEF head
  <2>3. Reading(head)
    BY <2>1, <2>2, Zenon DEF Reading
  <2> QED BY <2>3 DEF head
<1>1. \A x \in Stream \cup CarRows \cup Engine : Reading(x)
  BY <1>a DEF Sections, Stream, CarRows, Engine
<1>2. \A x \in SpeedAndMotion \cup Acceleration \cup Rotation \cup Inputs : Reading(x)
  BY <1>a DEF Sections, SpeedAndMotion, Acceleration, Rotation, Inputs
<1>3. \A x \in LapAndRace \cup Position \cup TireRows \cup TireHeads : Reading(x)
  BY <1>a, <1>b DEF Sections, LapAndRace, Position, TireRows, TireHeads
<1>4. r.panel \in Needs /\ r.need \in Needs
  BY DEF Needs
<1> QED BY <1>1, <1>2, <1>3, <1>4 DEF Rows

LEMMA MetersReadSections ==
    ASSUME NEW m \in Meters
    PROVE  m \in Rows /\ m.reads \in Sections
<1>1. m \in Rows /\ m.meter
  BY DEF Meters
<1>2. Reading(m)
  BY <1>1, RowsReadWhatTheyNeed
<1> QED BY <1>1, <1>2 DEF Reading

(* What a row says is numbers; one that reads a section says its value.    *)
LEMMA WhatRowsSay ==
    ASSUME Parsed, NEW r \in Rows
    PROVE  Says(r) \in SUBSET Nat /\ (r.reads \in Sections => Says(r) = {t.of[r.reads]})
<1>1. t.of \in [Sections -> Nat] /\ "dash" \in Sections
  BY DEF Parsed, Sections
<1>2. r.reads \in Sections => r.reads # "temperature"
  BY DEF Sections
<1>3. r.reads \in Sections \/ r.reads = "temperature"
  BY RowsReadWhatTheyNeed DEF Reading
<1>4. CASE r.reads \in Sections
  <2>1. Says(r) = {t.of[r.reads]}
    BY <1>2, <1>4 DEF Says
  <2> QED BY <1>1, <1>4, <2>1
<1>5. CASE r.reads = "temperature"
  <2>1. Says(r) \subseteq {t.of["dash"]}
    BY <1>5 DEF Says
  <2> QED BY <1>1, <1>2, <1>5, <2>1
<1> QED BY <1>3, <1>4, <1>5

(* A value is a whole step from another as the other is from it, and never *)
(* from itself.                                                            *)
LEMMA ApartSymmetric ==
    ASSUME NEW x \in Nat, NEW y \in Nat
    PROVE  (Apart(x, y) <=> Apart(y, x)) /\ ~Apart(x, x)
BY StepIsReal DEF Apart

LEMMA ScreenInvInit == ScreenInit => ScreenInv
<1> SUFFICES ASSUME ScreenInit PROVE ScreenInv
  OBVIOUS
<1>1. Parsed
  BY DEF ScreenInit, Parsed, CreateTelemetry
<1>2. ChartTypeOK
  BY DEF ScreenInit, ChartTypeOK
<1>3. maxDash \in Nat /\ earned \in BOOLEAN /\ hidden \subseteq Needs /\ text \in [Rows -> SUBSET Nat]
  BY DEF ScreenInit
<1>4. MetersInStep
  BY DEF ScreenInit, MetersInStep
<1>5. DrawnAsKeyed
  BY Zenon DEF ScreenInit, DrawnAsKeyed
<1>6. PeaksAreEarned
  BY DEF ScreenInit, PeaksAreEarned
<1> QED BY <1>1, <1>2, <1>3, <1>4, <1>5, <1>6 DEF ScreenInv, ScreenTypeOK

(* A refresh: the meters redrawn show what their rows say, and remember it.*)
LEMMA RefreshInv ==
    ASSUME ScreenInv, Refresh
    PROVE  ScreenInv'
<1> DEFINE shown == {r \in Rows : r.need \notin hidden'}
           redrawn == {m \in shown \cap Meters : \A x \in frac[m], f \in Says(m) : Apart(f, x)}
<1>1. /\ hidden' = {n \in Needs : ~Available(n)}
      /\ text' = [r \in Rows |-> IF r \in shown THEN Says(r) ELSE text[r]]
      /\ meter' = [m \in Meters |-> IF m \in redrawn THEN Says(m) ELSE meter[m]]
      /\ frac' = [m \in Meters |-> IF m \in redrawn THEN Says(m) ELSE frac[m]]
      /\ UNCHANGED <<t, maxDash, earned, look, instant, key, picture>>
  BY DEF Refresh, Remember, chart
<1> HIDE DEF shown, redrawn
<1>2. Parsed /\ \A r \in Rows : Says(r) \in SUBSET Nat
  BY WhatRowsSay DEF ScreenInv, ScreenTypeOK
<1>3. hidden' \subseteq Needs /\ text' \in [Rows -> SUBSET Nat]
  BY <1>1, <1>2 DEF ScreenInv, ScreenTypeOK
<1>4. MetersInStep'
  <2>1. frac \in [Meters -> SUBSET Nat] /\ meter = frac /\ Meters \subseteq Rows
    BY DEF ScreenInv, MetersInStep, Meters
  <2>2. frac' \in [Meters -> SUBSET Nat] /\ meter' = frac'
    BY <1>1, <1>2, <2>1
  <2> QED BY <2>2 DEF MetersInStep
<1>5. Parsed' /\ ChartTypeOK'
  BY <1>1 DEF ScreenInv, ScreenTypeOK, Parsed, ChartTypeOK
<1>6. maxDash' \in Nat /\ earned' \in BOOLEAN
  BY <1>1 DEF ScreenInv, ScreenTypeOK
<1>7. DrawnAsKeyed' /\ PeaksAreEarned'
  BY <1>1, Zenon DEF ScreenInv, DrawnAsKeyed, PeaksAreEarned
<1> QED BY <1>3, <1>4, <1>5, <1>6, <1>7 DEF ScreenInv, ScreenTypeOK

(* A frame draws the chart whole, or nothing for want of a size. *)
LEMMA RedrawInv ==
    ASSUME ChartTypeOK, Redraw
    PROVE  ChartTypeOK' /\ DrawnAsKeyed'
<1>1. /\ key' = [look |-> look, last |-> TRUE] /\ look' = look /\ instant' = instant
      /\ picture' = IF look = NoLook THEN picture ELSE [look |-> look, whole |-> TRUE]
  BY DEF Redraw, KeyNow
<1>2. ChartTypeOK'
  BY <1>1 DEF ChartTypeOK
<1>3. key'.look = look
  BY <1>1
<1>4. look # NoLook => picture'.look = look /\ picture'.whole = TRUE
  BY <1>1, Zenon
<1>5. key'.look # NoLook => picture'.look = key'.look /\ picture'.whole = TRUE
  BY <1>3, <1>4
<1> QED BY <1>2, <1>5, Zenon DEF DrawnAsKeyed

(* News makes the chart's key old before it makes its picture incomplete,  *)
(* or is late.                                                             *)
LEMMA HeardInv ==
    ASSUME ChartTypeOK, DrawnAsKeyed, NEW known \in BOOLEAN, NEW again \in BOOLEAN, NEW sampled \in BOOLEAN,
           Heard(known, again, sampled)
    PROVE  ChartTypeOK' /\ DrawnAsKeyed'
<1>1. /\ sampled => known /\ (again => instant = "unknown")
      /\ instant' = IF ~again THEN IF known THEN "good" ELSE "unknown"
                    ELSE IF known /\ instant = "unknown" THEN "late" ELSE instant
      /\ key' = [key EXCEPT !.last = key.last /\ again] /\ look' = look
      /\ picture' = [picture EXCEPT !.whole = picture.whole /\ ~sampled]
  BY DEF Heard
<1>2. /\ key \in [look : Looks \cup {NoLook}, last : BOOLEAN]
      /\ picture \in [look : Looks \cup {NoLook}, whole : BOOLEAN]
      /\ instant \in {"unknown", "good", "late"}
  BY DEF ChartTypeOK
<1>3. ChartTypeOK'
  BY <1>1, <1>2 DEF ChartTypeOK
<1>4. /\ key'.look = key.look /\ key'.last = (key.last /\ again)
      /\ picture'.look = picture.look /\ picture'.whole = (picture.whole /\ ~sampled)
  BY <1>1, <1>2
<1>5. ASSUME key'.last = TRUE, key'.look # NoLook
      PROVE  picture'.look = key'.look /\ (picture'.whole = TRUE \/ instant' = "late")
  <2>1. key.last = TRUE /\ again = TRUE /\ key.look # NoLook
    BY <1>2, <1>4, <1>5
  <2>2. picture.look = key.look /\ (picture.whole = TRUE \/ instant = "late")
    BY <2>1 DEF DrawnAsKeyed
  <2>3. sampled = TRUE => instant' = "late"
    BY <1>1, <2>1
  <2>4. instant = "late" => instant' = "late"
    BY <1>1, <2>1
  <2>5. sampled = FALSE /\ picture.whole = TRUE => picture'.whole = TRUE
    BY <1>4
  <2> QED BY <1>4, <2>2, <2>3, <2>4, <2>5
<1>6. DrawnAsKeyed'
  BY <1>5, Zenon DEF DrawnAsKeyed
<1> QED BY <1>3, <1>6

(* Parsing fills the sections the packet has and leaves the others.        *)
LEMMA ParsedIsParsed ==
    ASSUME Parsed, NEW size, Recognized(size), NEW v \in Values, t' = Parse(size, v)
    PROVE  Parsed' /\ t'.of["dash"] \in Nat
<1>1. t'.size = size /\ t'.of = [s \in Sections |-> IF s \in LAYOUTS[size] THEN v ELSE t.of[s]]
  BY DEF Parse
<1>2. t.of \in [Sections -> Nat] /\ v \in Nat /\ "dash" \in Sections
  BY FieldsAreNumbers DEF Parsed, Sections
<1>3. t'.of \in [Sections -> Nat]
  BY <1>1, <1>2
<1> QED BY <1>1, <1>2, <1>3 DEF Parsed, Recognized

LEMMA BinaryInv ==
    ASSUME ScreenInv, NEW size \in Sizes, NEW raceOn \in BOOLEAN, NEW v \in Values,
           NEW again \in BOOLEAN, NEW sampled \in BOOLEAN, OnBinary(size, raceOn, v, again, sampled)
    PROVE  ScreenInv'
<1>1. Recognized(size) /\ t' = Parse(size, v) /\ UpdatePeaks(size, raceOn, v) /\ Heard(TRUE, again, sampled)
  BY DEF OnBinary
<1>2. Parsed' /\ t'.of["dash"] \in Nat
  BY <1>1, ParsedIsParsed DEF ScreenInv, ScreenTypeOK
<1>3. ChartTypeOK' /\ DrawnAsKeyed'
  BY <1>1, HeardInv DEF ScreenInv, ScreenTypeOK
<1>4. hidden' = hidden /\ text' = text /\ frac' = frac /\ meter' = meter
  BY <1>1 DEF Heard, rows
<1>5. hidden' \subseteq Needs /\ text' \in [Rows -> SUBSET Nat] /\ MetersInStep'
  BY <1>4 DEF ScreenInv, ScreenTypeOK, MetersInStep
<1>6. maxDash \in Nat /\ earned \in BOOLEAN /\ (maxDash > 0 => earned)
  BY DEF ScreenInv, ScreenTypeOK, PeaksAreEarned
<1>7. CASE raceOn /\ PeakOf(size)
  <2>1. /\ maxDash' = IF t'.of["dash"] > maxDash THEN t'.of["dash"] ELSE maxDash
        /\ earned' = TRUE
    BY <1>1, <1>7 DEF UpdatePeaks, PeakOf
  <2>2. maxDash' \in Nat
    BY <1>2, <1>6, <2>1
  <2>3. earned' \in BOOLEAN /\ PeaksAreEarned'
    BY <2>1 DEF PeaksAreEarned
  <2> QED BY <1>2, <1>3, <1>5, <2>2, <2>3 DEF ScreenInv, ScreenTypeOK
<1>8. CASE ~(raceOn /\ PeakOf(size))
  <2>1. maxDash' = maxDash /\ earned' = earned
    BY <1>1, <1>8 DEF UpdatePeaks
  <2>2. maxDash' \in Nat /\ earned' \in BOOLEAN /\ PeaksAreEarned'
    BY <1>6, <2>1 DEF PeaksAreEarned
  <2> QED BY <1>2, <1>3, <1>5, <2>2 DEF ScreenInv, ScreenTypeOK
<1> QED BY <1>7, <1>8

LEMMA ScreenInvNext == ScreenInv /\ [ScreenNext]_screen => ScreenInv'
<1> SUFFICES ASSUME ScreenInv, [ScreenNext]_screen PROVE ScreenInv'
  OBVIOUS
<1> USE DEF ScreenInv, ScreenTypeOK
<1>1. ASSUME NEW size \in Sizes, NEW raceOn \in BOOLEAN, NEW v \in Values,
             NEW again \in BOOLEAN, NEW sampled \in BOOLEAN, OnBinary(size, raceOn, v, again, sampled)
      PROVE  ScreenInv'
  BY <1>1, BinaryInv
<1>2. ASSUME NEW size \in Sizes, NEW again \in BOOLEAN, OnBadPacket(size, again)
      PROVE  ScreenInv'
  <2>1. Heard(FALSE, again, FALSE) /\ UNCHANGED <<t, maxDash, earned, hidden, text, frac, meter>>
    BY <1>2 DEF OnBadPacket, Heard, rows
  <2>2. ChartTypeOK' /\ DrawnAsKeyed'
    BY <2>1, HeardInv
  <2> QED BY <2>1, <2>2 DEF Parsed, MetersInStep, PeaksAreEarned
<1>3. CASE Reset
  <2>1. maxDash' = 0 /\ earned' = FALSE /\ UNCHANGED <<t, hidden, text, frac, meter, look, instant, key, picture>>
    BY <1>3 DEF Reset, rows, chart
  <2>2. Parsed' /\ MetersInStep' /\ ChartTypeOK' /\ DrawnAsKeyed'
    BY <2>1 DEF Parsed, MetersInStep, ChartTypeOK, DrawnAsKeyed
  <2>3. maxDash' \in Nat /\ ~(maxDash' > 0)
    BY <2>1
  <2> QED BY <2>1, <2>2, <2>3 DEF PeaksAreEarned
<1>4. CASE Refresh
  BY <1>4, RefreshInv
<1>5. CASE Redraw
  <2>1. UNCHANGED <<t, maxDash, earned, hidden, text, frac, meter>>
    BY <1>5 DEF Redraw, rows
  <2>2. ChartTypeOK' /\ DrawnAsKeyed'
    BY <1>5, RedrawInv
  <2> QED BY <2>1, <2>2 DEF Parsed, MetersInStep, PeaksAreEarned
<1>6. ASSUME NEW l \in Looks \cup {NoLook}, Relook(l) PROVE ScreenInv'
  <2>1. look' = l /\ UNCHANGED <<t, maxDash, earned, hidden, text, frac, meter, instant, key, picture>>
    BY <1>6 DEF Relook, rows
  <2>2. Parsed' /\ MetersInStep' /\ ChartTypeOK' /\ DrawnAsKeyed' /\ PeaksAreEarned'
    BY <2>1 DEF Parsed, MetersInStep, ChartTypeOK, DrawnAsKeyed, PeaksAreEarned
  <2> QED BY <2>1, <2>2
<1>7. CASE UNCHANGED screen
  <2>1. UNCHANGED <<t, maxDash, earned, hidden, text, frac, meter, look, instant, key, picture>>
    BY <1>7 DEF screen, rows, chart
  <2> QED BY <2>1 DEF Parsed, MetersInStep, ChartTypeOK, DrawnAsKeyed, PeaksAreEarned
<1> QED BY <1>1, <1>2, <1>3, <1>4, <1>5, <1>6, <1>7 DEF ScreenNext

LEMMA ScreenInvAlways == ScreenSpec => []ScreenInv
BY ScreenInvInit, ScreenInvNext, PTL DEF ScreenSpec

(* The screen's state keeps its types: what is parsed is of a size the     *)
(* parser knows, a hidden need is one some row has, and rows, peaks and    *)
(* the chart are what a frame makes them (index.js:24-36, 348-448).        *)
THEOREM ScreenTypeCorrect == ScreenSpec => []ScreenTypeOK
<1>1. ScreenInv => ScreenTypeOK
  BY DEF ScreenInv
<1> QED BY ScreenInvAlways, <1>1, PTL

(* A refresh writes every row that it shows, in a hidden panel or not.     *)
LEMMA RefreshWrites ==
    ASSUME ScreenInv, Refresh, NEW r \in Shown'
    PROVE  /\ r \in Rows /\ t' = t /\ text'[r] = Says(r)
           /\ Available(r.panel) /\ Available(r.need)
<1>1. r \in Rows /\ r.panel \notin hidden' /\ r.need \notin hidden'
  BY DEF Shown
<1>2. r.panel \in Needs /\ r.need \in Needs
  BY <1>1, RowsReadWhatTheyNeed
<1>3. hidden' = {n \in Needs : ~Available(n)}
  BY DEF Refresh
<1>4. text'[r] = Says(r)
  BY <1>1 DEF Refresh
<1>5. t' = t
  BY DEF Refresh
<1> QED BY <1>1, <1>2, <1>3, <1>4, <1>5

(* After each refresh a row on display says what the newest packet says:   *)
(* its section is one the packet has, for the row or its panel asks for it *)
(* (index.js:292-335, 405-435).                                            *)
THEOREM RowsAreAlwaysFresh == ScreenSpec => RowsAreFresh
<1> DEFINE Fresh(r) ==
        /\ t.size # 0 /\ r.reads \in Sections => Has(t, r.reads)
        /\ r.reads = "temperature" /\ ~Has(t, "dash") => text'[r] = {}
        /\ r.reads \in Sections => text'[r] = {t.of[r.reads]}
<1>1. ASSUME ScreenInv, Refresh, NEW r \in Shown' PROVE Fresh(r)
  <2>1. r \in Rows /\ text'[r] = Says(r) /\ Available(r.panel) /\ Available(r.need)
    BY <1>1, RefreshWrites
  <2>2. Parsed
    BY <1>1 DEF ScreenInv, ScreenTypeOK
  <2>3. r.reads \in Sections => text'[r] = {t.of[r.reads]}
    BY <2>1, <2>2, WhatRowsSay
  <2>4. r.reads = "temperature" /\ ~Has(t, "dash") => text'[r] = {}
    BY <2>1 DEF Says
  <2>5. ASSUME t.size # 0, r.reads \in Sections PROVE Has(t, r.reads)
    <3>1. r.reads \in {"sled", r.panel, r.need} /\ r.reads # ""
      <4>1. "temperature" \notin Sections /\ "" \notin Sections
        BY DEF Sections
      <4>2. Reading(r)
        BY <2>1, RowsReadWhatTheyNeed
      <4> QED BY <2>5, <4>1, <4>2 DEF Reading
    <3>2. Has(t, "sled")
      BY <2>2, <2>5, KnownSizes DEF Parsed, Has
    <3>3. \A n : Available(n) /\ n # "" => Has(t, n)
      BY <2>5 DEF Available
    <3> QED BY <2>1, <3>1, <3>2, <3>3
  <2> QED BY <2>3, <2>4, <2>5
<1>2. ScreenInv /\ [ScreenNext]_screen => [Refresh => \A r \in Shown' : Fresh(r)]_screen
  BY <1>1
<1> QED BY ScreenInvAlways, <1>2, PTL DEF ScreenSpec, RowsAreFresh

(* A meter on display shows, after each refresh, a value less than a step  *)
(* from what its row says: it remembers what it shows, so that what creeps *)
(* is measured from there (index.js:301-306).                              *)
THEOREM MetersNeverDrift == ScreenSpec => MetersDoNotDrift
<1> DEFINE Near(m) == \E x \in meter'[m] : ~Apart(x, t.of[m.reads])
<1>1. ASSUME ScreenInv, Refresh, NEW m \in Shown' \cap Meters PROVE Near(m)
  <2> DEFINE shown == {r \in Rows : r.need \notin hidden'}
             redrawn == {r \in shown \cap Meters : \A x \in frac[r], f \in Says(r) : Apart(f, x)}
  <2>1. m \in Rows /\ m.reads \in Sections /\ m \in shown
    BY <1>1, MetersReadSections DEF Shown
  <2>2. t.of[m.reads] \in Nat /\ Says(m) = {t.of[m.reads]}
    BY <1>1, <2>1, WhatRowsSay DEF ScreenInv, ScreenTypeOK, Parsed
  <2>3. meter[m] = frac[m] /\ frac[m] \in SUBSET Nat
    BY <1>1 DEF ScreenInv, MetersInStep
  <2>4. meter' = [r \in Meters |-> IF r \in redrawn THEN Says(r) ELSE meter[r]]
    BY <1>1 DEF Refresh
  <2>5. CASE m \in redrawn
    <3>1. t.of[m.reads] \in meter'[m]
      BY <1>1, <2>2, <2>4, <2>5
    <3>2. ~Apart(t.of[m.reads], t.of[m.reads])
      BY <2>2, ApartSymmetric
    <3> QED BY <3>1, <3>2
  <2>6. CASE m \notin redrawn
    <3>1. PICK x \in frac[m] : ~Apart(t.of[m.reads], x)
      BY <1>1, <2>1, <2>2, <2>6
    <3>2. x \in meter'[m]
      BY <1>1, <2>3, <2>4, <2>6
    <3>3. ~Apart(x, t.of[m.reads])
      BY <2>2, <2>3, <3>1, ApartSymmetric
    <3> QED BY <3>2, <3>3
  <2> QED BY <2>5, <2>6
<1>2. ScreenInv /\ [ScreenNext]_screen => [Refresh => \A m \in Shown' \cap Meters : Near(m)]_screen
  BY <1>1
<1> QED BY ScreenInvAlways, <1>2, PTL DEF ScreenSpec, MetersDoNotDrift

(* No peak of the dash section without a packet since the last Reset that  *)
(* had one while the race was on (index.js:24-36).                         *)
THEOREM PeaksAreAlwaysEarned == ScreenSpec => []PeaksAreEarned
<1>1. ScreenInv => PeaksAreEarned
  BY DEF ScreenInv
<1> QED BY ScreenInvAlways, <1>1, PTL

(* A chart whose key is that of now shows all of the history in the look   *)
(* it has now, but for a sample that came late in its instant, after a     *)
(* packet of an unknown size (index.js:437-447, main.js:160-167).          *)
THEOREM ChartsAreAlwaysCurrent == ScreenSpec => []ChartsAreCurrent
<1>1. ScreenInv => ChartsAreCurrent
  <2> SUFFICES ASSUME ScreenInv, key = KeyNow, look # NoLook
               PROVE  picture.look = look /\ (picture.whole = TRUE \/ instant = "late")
    BY DEF ChartsAreCurrent
  <2>1. key.look = look /\ key.last = TRUE
    BY DEF KeyNow
  <2> QED BY <2>1 DEF ScreenInv, DrawnAsKeyed
<1> QED BY ScreenInvAlways, <1>1, PTL
===============================================================================
