----------------------------- MODULE DashStyles -----------------------------
(***************************************************************************)
(* web/js/dash/*.js: what the layers that a dash style keeps, its          *)
(* background and the glass over it, are made of.  A drawing is a function *)
(* of the layout and of the fields of the view it reads, so a style is     *)
(* here the names of those fields.  What drawDynamic() draws is drawn anew *)
(* in each frame and keeps nothing.                                        *)
(***************************************************************************)

PorscheDials == {"metric", "speedMax", "boostMin", "boostMax"}
PorscheStatic == {"max", "major", "redline", "speedUnit", "boostUnit"} \cup PorscheDials
PorscheGlass == {}

TaycanStatic == {"max", "major", "redline", "speedUnit"}

BoxsterStatic ==
    {"max", "major", "minor", "redline", "speedMax", "metric", "speedUnit", "distanceUnit",
     "boostMin", "boostMax", "boostUnit"}
BoxsterGlass == {}

RaceStatic == {"max", "major", "redline", "speedUnit", "boostUnit", "tempUnit", "powerUnit"}

FordStatic ==
    {"max", "major", "minor", "redline", "speedUnit", "boostMin", "boostMax", "boostUnit", "powerUnit"}
FordGlass == {"max", "minor"}

JdmStatic ==
    {"max", "major", "minor", "redline", "speedMax", "metric", "distanceUnit",
     "boostMin", "boostMax", "boostUnit"}
JdmGlass == {}

(* STYLES, by their drawStatic(). *)
StaticReads ==
    [porsche |-> PorscheStatic, taycan |-> TaycanStatic, boxster |-> BoxsterStatic,
     race |-> RaceStatic, ford |-> FordStatic, jdm |-> JdmStatic]

(* The styles that have a drawGlass(). *)
GlassReads ==
    [porsche |-> PorscheGlass, boxster |-> BoxsterGlass, ford |-> FordGlass, jdm |-> JdmGlass]
=============================================================================
