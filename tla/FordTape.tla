------------------------------ MODULE FordTape ------------------------------
(***************************************************************************)
(* web/js/dash/ford.js: the rpm tape of the Ford style is drawn in each    *)
(* frame with a gradient that is kept outside the dash's own caches, under *)
(* a key of its own.                                                       *)
(***************************************************************************)
EXTENDS RpmScale

CONSTANTS
    Widths,  \* widths of the virtual space, geo.W, whole numbers
    Engines  \* the highest rpm of the engines driven, whole numbers

VARIABLES
    W,        \* the width now
    scale,    \* v.scale
    tapeGrad, \* the gradient, a set of one, or none
    tapeKey,  \* tapeGradKey, a set of one, or none
    drawn     \* the last frame: its gradient, and the width and scale it was drawn for

vars == <<W, scale, tapeGrad, tapeKey, drawn>>

(* layout(): the radius, in thousandths, and twice the centre.             *)
Radius(w) == LET r == ((w - 250) * 500000) \div 951 IN IF r < 640000 THEN r ELSE 640000
Centre(w) == w

(* The gradient runs from the arc's left end to its right one, with stops  *)
(* that the scale gives it.                                                *)
Gradient(w, s) == [centre |-> Centre(w), radius |-> Radius(w), max |-> s.max, redline |-> s.redline]

Key(w, s) == <<s.max, s.redline, Radius(w)>>

Resize(w) == W' = w /\ UNCHANGED <<scale, tapeGrad, tapeKey, drawn>>
Engine(m) == scale' = Scale(m) /\ UNCHANGED <<W, tapeGrad, tapeKey, drawn>>

DrawDynamic ==
    /\ tapeKey' = {Key(W, scale)}
    /\ tapeGrad' = IF tapeKey # tapeKey' THEN {Gradient(W, scale)} ELSE tapeGrad
    /\ drawn' = {[grad |-> g, W |-> W, scale |-> scale] : g \in tapeGrad'}
    /\ UNCHANGED <<W, scale>>

Init ==
    /\ W \in Widths /\ scale = Scale(8000)
    /\ tapeGrad = {} /\ tapeKey = {} /\ drawn = {}

Next == DrawDynamic \/ (\E w \in Widths : Resize(w)) \/ (\E m \in Engines : Engine(m))

Spec == Init /\ [][Next]_vars
-----------------------------------------------------------------------------
(* The tape is blue at its own left end and red at its own redline         *)
(* (ford.js:190): each frame draws it with the gradient of the window and  *)
(* the scale it is drawn for.                                              *)
TapeIsCurrent == \A d \in drawn : d.grad = Gradient(d.W, d.scale)
=============================================================================
