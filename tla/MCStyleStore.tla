---------------------------- MODULE MCStyleStore ----------------------------
(* Two handlers, two cars spelled three ways, one limit of each kind. *)
EXTENDS StyleStore

CONSTANTS h1, h2, car7, car9, jdm, race, t7, t007, t9, tbad

MCHandlers == {h1, h2}
MCCars == {car7, car9}
MCStyles == {jdm, race}
MCCarPaths == {t7, t007, t9, tbad}
MCOrdinal == [p \in MCCarPaths |-> CASE p = t7 -> car7 [] p = t007 -> car7
                                     [] p = t9 -> car9 [] p = tbad -> NoCar]
=============================================================================
