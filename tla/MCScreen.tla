------------------------------ MODULE MCScreen ------------------------------
(* The smallest format and one with a section of its own, a size nobody    *)
(* knows, and values a meter's step from 0, where each starts, and half of *)
(* one.                                                                    *)
EXTENDS Screen
=============================================================================
