------------------------------- MODULE Display -------------------------------
(***************************************************************************)
(* The dash on its page (web/js/main.js): the page's animation frames draw *)
(* it while it is the screen on show and the page is in front, and only    *)
(* then; its styles, its units and its size change at any time, and its    *)
(* wake lock and its bar come and go.                                      *)
(***************************************************************************)
EXTENDS Controls, Dash

vars == <<controls, wake, dash>>

(* frame() of main.js, for the dash. *)
DashFrame == visible /\ route = "dash" /\ (Frame \/ FrameSkipped) /\ UNCHANGED <<controls, wake>>

Init == ControlsInit /\ DashInit

Next ==
    \/ ControlsNext /\ UNCHANGED dash
    \/ Outside /\ UNCHANGED <<controls, wake>>
    \/ DashFrame

Spec == Init /\ [][Next]_vars
==============================================================================
