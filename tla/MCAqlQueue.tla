----------------------------- MODULE MCAqlQueue -----------------------------
(* Small instances of AqlQueue for TLC: the ring wraps several times.      *)
EXTENDS AqlQueue
=============================================================================
