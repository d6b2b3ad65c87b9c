------------------------------ MODULE MCSocket ------------------------------
(* The constants of socket.js in units of half a second. *)
EXTENDS Socket
=============================================================================
