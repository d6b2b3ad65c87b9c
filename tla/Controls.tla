------------------------------ MODULE Controls ------------------------------
(***************************************************************************)
(* web/js/main.js: which screen is shown, the control bar that leaves the  *)
(* dash by itself, and the screen wake lock, which the page asks for when  *)
(* it is loaded, shown and tapped, and which the system grants, refuses    *)
(* and takes back as it likes.                                             *)
(*                                                                         *)
(* The system lets go of a page's locks, and tells it, before the page     *)
(* hears that it is hidden: release events are not late.                   *)
(***************************************************************************)
EXTENDS Naturals

VARIABLES
    route,        \* route, the screen shown
    bar,          \* the control bar is on display
    timers,       \* number of bar timers under way
    visible,      \* document.visibilityState
    wakeLock,     \* wakeLock is not null
    wakePending,  \* wakePending
    requests,     \* number of requests the system has not answered
    locks,        \* number of locks the system holds for the page
    answer        \* history: the system's last word since the page was last shown

controls == <<route, bar, timers>>
wake == <<visible, wakeLock, wakePending, requests, locks, answer>>

Routes == {"dash", "telemetry"}

-----------------------------------------------------------------------------
(* Bug: the timer under way is not cleared. *)
TimersKept == timers
(* clearTimeout stops the timer under way, if there is one. *)
TimersLeft == 0

ShowBar ==
    /\ bar' = TRUE
    /\ timers' = TimersLeft + IF route' = "dash" THEN 1 ELSE 0

(* A link to a screen, or any other hash, which means the dash. *)
SetRoute(r) ==
    /\ r # route
    /\ route' = r
    /\ ShowBar
    /\ UNCHANGED wake

BarHides ==
    /\ timers > 0
    /\ timers' = timers - 1
    /\ bar' = FALSE
    /\ UNCHANGED <<route, wake>>

TouchBar == visible /\ bar /\ UNCHANGED <<route, wake>> /\ ShowBar

-----------------------------------------------------------------------------
(* Bug: a second request may be made while one is under way. *)
MayAskAgain == ~wakeLock /\ visible'
MayAsk == ~wakeLock /\ ~wakePending /\ visible'

RequestWakeLock ==
    /\ wakePending' = (wakePending \/ MayAsk)
    /\ requests' = requests + IF MayAsk THEN 1 ELSE 0

TapDash ==
    /\ visible /\ route = "dash"
    /\ UNCHANGED <<route, visible, wakeLock, locks, answer>>
    /\ ShowBar
    /\ RequestWakeLock

(* Locks end with visibility; what was asked before is answered later. *)
Hide ==
    /\ visible
    /\ visible' = FALSE
    /\ wakeLock' = FALSE /\ locks' = 0 /\ answer' = "none"
    /\ UNCHANGED controls
    /\ RequestWakeLock

(* Bug: nothing is asked when the page is shown again. *)
ShowSilently ==
    /\ ~visible
    /\ visible' = TRUE /\ answer' = "none"
    /\ UNCHANGED <<controls, wakeLock, wakePending, requests, locks>>
Show ==
    /\ ~visible
    /\ visible' = TRUE /\ answer' = "none"
    /\ UNCHANGED <<controls, wakeLock, locks>>
    /\ RequestWakeLock

Granted ==
    /\ requests > 0 /\ visible
    /\ requests' = requests - 1 /\ locks' = locks + 1
    /\ wakeLock' = TRUE /\ wakePending' = FALSE
    /\ answer' = "granted"
    /\ UNCHANGED <<controls, visible>>

(* No HTTPS, low battery, no tap yet, or the page was hidden meanwhile. *)
(* Bug: only success clears the flag. *)
RefusedForGood ==
    /\ requests > 0
    /\ requests' = requests - 1
    /\ answer' = "refused"
    /\ UNCHANGED <<controls, visible, wakeLock, wakePending, locks>>
Refused ==
    /\ requests > 0
    /\ requests' = requests - 1
    /\ wakePending' = FALSE
    /\ answer' = "refused"
    /\ UNCHANGED <<controls, visible, wakeLock, locks>>

(* The system releases a lock of a visible page. *)
TakenBack ==
    /\ locks > 0
    /\ locks' = locks - 1
    /\ wakeLock' = FALSE
    /\ answer' = "taken back"
    /\ UNCHANGED <<controls, visible, wakePending, requests>>

-----------------------------------------------------------------------------
(* A page that is loaded in front, or behind another. *)
ControlsInit ==
    /\ route \in Routes /\ bar = TRUE
    /\ timers = IF route = "dash" THEN 1 ELSE 0
    /\ visible \in BOOLEAN
    /\ wakeLock = FALSE /\ locks = 0 /\ answer = "none"
    /\ wakePending = visible
    /\ requests = IF visible THEN 1 ELSE 0

ControlsNext ==
    \/ \E r \in Routes : SetRoute(r)
    \/ BarHides
    \/ TouchBar
    \/ TapDash
    \/ Hide
    \/ Show
    \/ Granted
    \/ Refused
    \/ TakenBack

-----------------------------------------------------------------------------
(* The bar never leaves the telemetry screen, where no tap brings it back, *)
(* and it never stays on the dash without a timer that takes it away.      *)
BarComesAndGoes ==
    /\ route = "telemetry" => bar /\ timers = 0
    /\ route = "dash" => (bar <=> timers = 1)

(* There is never more than one wake lock or request for one, and the page *)
(* knows of each: a lock it has lost sight of would be held for good.      *)
OneWakeLock ==
    /\ locks + requests <= 1
    /\ wakeLock <=> locks = 1
    /\ wakePending <=> requests = 1

(* A page in front keeps the screen on or has asked to, unless the system  *)
(* has said no since it came to the front, be it of a request from before  *)
(* it was hidden: then nothing asks until the next tap (main.js:209-222).  *)
AwakeOrRefused ==
    visible => wakeLock \/ wakePending \/ answer \in {"refused", "taken back"}

=============================================================================
