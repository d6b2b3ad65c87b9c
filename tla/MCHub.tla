------------------------------- MODULE MCHub --------------------------------
(* Sizes on both sides of each limit of the packet filter. *)
EXTENDS Hub

MCSizes == {231, 232, 4096, 4097}
=============================================================================
