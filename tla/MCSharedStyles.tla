---------------------------- MODULE MCSharedStyles ----------------------------
(* Two devices that pick styles for one car, or one device.                *)
EXTENDS SharedStyles
===============================================================================
