----------------------------- MODULE MCFordTape -----------------------------
(* A narrow window and two wide ones, for which the arc has one radius.    *)
EXTENDS FordTape
=============================================================================
