------------------------------ MODULE MCHistory -----------------------------
(* Times in half samples: a ring for three half samples' time with two     *)
(* samples of headroom, a clock that lets it wrap around, and fewer        *)
(* samples on the trail than it has chunks, as many, and more.             *)
EXTENDS Charts
=============================================================================
