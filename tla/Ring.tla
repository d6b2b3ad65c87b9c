-------------------------------- MODULE Ring --------------------------------
(***************************************************************************)
(* The ring buffer of web/js/history.js: a record of the typed array, its  *)
(* capacity, the next index to write and the number of values in it.       *)
(***************************************************************************)
EXTENDS Integers, Sequences

Rings(cap, V) == [buf : [0 .. cap - 1 -> V], cap : {cap}, head : 0 .. cap - 1, len : 0 .. cap]

NewRing(cap) == [buf |-> [i \in 0 .. cap - 1 |-> 0], cap |-> cap, head |-> 0, len |-> 0]

Push(r, v) ==
    [buf |-> [r.buf EXCEPT ![r.head] = v], cap |-> r.cap,
     head |-> (r.head + 1) % r.cap,
     len |-> IF r.len < r.cap THEN r.len + 1 ELSE r.len]

(* at(0) is the oldest value, at(len - 1) the newest. *)
At(r, i) == r.buf[(r.head - r.len + i + r.cap) % r.cap]

Newest(r) == IF r.len > 0 THEN At(r, r.len - 1) ELSE 0
=============================================================================
