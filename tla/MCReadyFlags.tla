---------------------------- MODULE MCReadyFlags ----------------------------
(* Small instance of ReadyFlags for TLC. *)
EXTENDS ReadyFlags
=============================================================================
