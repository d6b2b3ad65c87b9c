------------------------------ MODULE MCShutdown ------------------------------
(* Two PUTs and two clients, in any stage of their handlers when the signal comes. *)
EXTENDS Shutdown
===============================================================================
