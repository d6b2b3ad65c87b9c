------------------------------ MODULE RpmScale ------------------------------
(***************************************************************************)
(* web/js/dash/common.js: rpmScale(), the scale of every tachometer for an *)
(* engine's highest rpm, a whole number here.                              *)
(***************************************************************************)
EXTENDS Integers

Major(m) == IF m <= 10000 THEN 1000 ELSE IF m <= 20000 THEN 2000 ELSE 5000

(* Math.ceil: there is room for 250 rpm above the engine's highest. *)
Top(m) == ((m + 250 + Major(m) - 1) \div Major(m)) * Major(m)

(* Bug: no tenth: the redline of a fast engine is only 500 rpm below. *)
RedlineFlat(m) == 250 * ((m - 500 + 125) \div 250)
(* Math.round, in tenths: 500 rpm or a tenth below the highest. *)
Redline(m) == 250 * ((10 * m - (IF m < 5000 THEN 5000 ELSE m) + 1250) \div 2500)

Scale(m) == [rpmMax |-> m, max |-> Top(m), major |-> Major(m), minor |-> Major(m) \div 2, redline |-> Redline(m)]

(* A scale whose needle stays 250 rpm off the stop, with eleven numbers at *)
(* most and the redline on it, below the 96 % at which all shift lights    *)
(* are lit and the limiter flashes (dash/index.js:68).                     *)
Readable(s) ==
    /\ s.max >= s.rpmMax + 250 /\ s.max <= 11 * s.major
    /\ 0 <= s.redline /\ 100 * s.redline <= 96 * s.rpmMax
=============================================================================
