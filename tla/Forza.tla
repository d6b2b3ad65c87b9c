-------------------------------- MODULE Forza --------------------------------
(***************************************************************************)
(* web/js/forza.js: every packet is parsed into one object, which keeps    *)
(* what the sections of earlier packets left in it.  A packet is its size, *)
(* whether the race is on, and one value that all its fields have.         *)
(***************************************************************************)
EXTENDS Naturals

CONSTANTS
    Sizes,  \* sizes of the packets that come, known and unknown
    Values  \* values of a field; 0 is what an object nobody has filled holds

ASSUME FieldsAreNumbers == Values \subseteq Nat

VARIABLE t

Sections == {"sled", "dash", "horizon", "wear"}

(* What a packet of each known size has. *)
LAYOUTS ==
    [size \in {324, 331, 311, 232} |->
        CASE size = 324 -> {"sled", "dash", "horizon"}
          [] size = 331 -> {"sled", "dash", "wear"}
          [] size = 311 -> {"sled", "dash"}
          [] size = 232 -> {"sled"}]

CreateTelemetry == [size |-> 0, of |-> [s \in Sections |-> 0]]

(* hasDash, hasHorizon and hasTireWear. *)
Has(tel, section) == tel.size # 0 /\ section \in LAYOUTS[tel.size]

Recognized(size) == size \in DOMAIN LAYOUTS

(* speed is a field of the sled section: a packet without a dash section   *)
(* gets it from its velocities.                                            *)
Parse(size, v) ==
    [size |-> size, of |-> [s \in Sections |-> IF s \in LAYOUTS[size] THEN v ELSE t.of[s]]]
==============================================================================
