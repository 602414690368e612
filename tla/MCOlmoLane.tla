----------------------------- MODULE MCOlmoLane -----------------------------
(* Small instance of OlmoLane for TLC. *)
EXTENDS OlmoLane

CONSTANTS r1, r2, r3

(* r1 fills the cache, r2 meets its end of sequence, r3's prompt is longer   *)
(* than the cache.                                                          *)
Asks == [r \in Request |->
  CASE r = r1 -> [prompt |-> 2, max_new |-> 9, eos |-> 9]
    [] r = r2 -> [prompt |-> 1, max_new |-> 2, eos |-> 1]
    [] r = r3 -> [prompt |-> 4, max_new |-> 1, eos |-> 1]]

=============================================================================
