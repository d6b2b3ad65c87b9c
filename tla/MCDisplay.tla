----------------------------- MODULE MCDisplay ------------------------------
(* Two fast cars whose scales differ in the redline alone, one of them the *)
(* fastest with a number every 2000 rpm; a packet of the second without a  *)
(* dash section, a menu packet without an engine; and all the styles, with *)
(* glass that reads the scale, glass that reads nothing, and none.         *)
EXTENDS Display

MCPackets ==
    {[car |-> 1, engineMaxRpm |-> 19800, hasDash |-> TRUE, power |-> 1],
     [car |-> 2, engineMaxRpm |-> 20000, hasDash |-> TRUE, power |-> 2],
     [car |-> 2, engineMaxRpm |-> 20000, hasDash |-> FALSE, power |-> 0],
     [car |-> 1, engineMaxRpm |-> 0, hasDash |-> TRUE, power |-> 0]}
=============================================================================
